---- MODULE Spec2Model ----
(***************************************************************************)
(* Model of the auto-run-task execution engine (task_runner):              *)
(*   - scheduler.schedule_tasks                   (pure function)          *)
(*   - task_set.save_task_set / state.save_plan   (temp file + rename)     *)
(*   - executor.TaskExecutor._run_v3              (the v3 execution loop)  *)
(*   - executor.TaskExecutor.execute_task and its PTY / pipe supervisors   *)
(*   - executor.TaskExecutor._signal_handler      (two-tier cancellation)  *)
(* Time is measured in tenths of a second.                                 *)
(***************************************************************************)
EXTENDS Integers, Sequences, FiniteSets, TLC

VARIABLES
    tasks,              \* task_set.tasks: sequence of Task records (in memory)
    scheduled_tasks,    \* executor.scheduled_tasks: sequence of indices into tasks
    disk,               \* content of <name>.tasks.json
    tmp,                \* content of <name>.tasks.json.tmp
    pc,                 \* position of the main thread in _run_v3 / execute_task
    ret,                \* where the loop continues after the save in progress
    idx,                \* loop index into scheduled_tasks (1-based)
    dry_run,            \* executor.dry_run
    delay_range,        \* executor.delay_range
    max_execution_seconds, \* executor.max_execution_seconds
    interrupted,        \* executor.interrupted
    ctrl_c_count,       \* executor._ctrl_c_count
    timed_out,          \* executor._timed_out
    current_process,    \* executor.current_process: pid, or 0 for None
    returncode,         \* current_process.returncode, valid when reaped
    reaped,             \* current_process.returncode is not None
    alive,              \* pids of the child processes that are running
    exit_status,        \* exit status of the dead child of current_process
    spawned,            \* children started by the current execute_task call
    now,                \* time since the current child was started
    return_code,        \* result of execute_task
    elapsed,            \* result of execute_task
    delay_left,         \* seconds the inter-task delay still has to wait
    failed,             \* counter of _run_v3
    exit_code,          \* process exit: "running", "0", "1", "130", "exception"
    hist,               \* observation record of the run (ghost)
    result,             \* result of the pure function under check
    args                \* arguments of the pure function under check

vars == <<tasks, scheduled_tasks, disk, tmp, pc, ret, idx, dry_run, delay_range,
          max_execution_seconds, interrupted, ctrl_c_count, timed_out,
          current_process, returncode, reaped, alive, exit_status, spawned,
          now, return_code, elapsed, delay_left, failed, exit_code, hist, result,
          args>>

(***************************************************************************)
(* Bounds and program constants                                            *)
(***************************************************************************)
NumTasks == 3            \* tasks in the task set of a run
MaxLen == 3              \* longest task list given to the scheduler
MaxBatch == 2            \* batch numbers 1..MaxBatch
MaxPriority == 2         \* priorities 1..MaxPriority
MaxFilterLen == 3        \* longest task list given to the filtering scheduler
MaxDepLen == 3           \* longest task list given to the dependency functions
MaxResetLen == 2         \* tasks in the task set of a reset
MaxLines == 5            \* lines of the longest text given to _sanitize_text
HorizonTicks == 3        \* how many clock readings a child's life is cut into
MaxCliTasks == 2         \* tasks in the task set of a tool/model resolution
MaxTimingTasks == 2      \* tasks in the task set of a timing record
MaxPolls == 2                 \* polls of a kill helper's wait (50 in the code)
MaxNoiseLines == 3            \* lines of a log with transport noise

MIN_EXECUTION_SECONDS == 10
TERM_RC == 0 - 15        \* Popen.returncode of a child killed by SIGTERM
KILL_RC == 0 - 9         \* Popen.returncode of a child killed by SIGKILL
UNKNOWN_RC == 0 - 1      \* execute_task's code when returncode is None

Statuses == {"not-started", "in-progress", "completed", "failed", "interrupted"}

\* Clock readings (tenths of a second) around the plausibility threshold and
\* the timeout used.
ClockReadings == <<99, 100, 120, 130, 140, 150>>
Times == {0} \cup {ClockReadings[i] : i \in 1..HorizonTicks}
TimeoutChoices == {12}
DelayRanges == {<<0, 0>>, <<1, 2>>}

Max2(a, b) == IF a >= b THEN a ELSE b

(***************************************************************************)
(* scheduler.schedule_tasks                                                *)
(***************************************************************************)
\* key=lambda t: (t.batch, t.priority), compared as tuples
KeyLE(ts, i, j) ==
    \/ ts[i].batch < ts[j].batch
    \/ ts[i].batch = ts[j].batch /\ ts[i].priority <= ts[j].priority

KeyLT(ts, i, j) ==
    \/ ts[i].batch < ts[j].batch
    \/ ts[i].batch = ts[j].batch /\ ts[i].priority < ts[j].priority

\* insert x into the sorted list s behind every element whose key is <= x's
RECURSIVE InsertStable(_, _, _)
InsertStable(ts, s, x) ==
    IF s = <<>> THEN <<x>>
    ELSE IF KeyLE(ts, Head(s), x) THEN <<Head(s)>> \o InsertStable(ts, Tail(s), x)
    ELSE <<x>> \o s

\* the same, but x goes in front of the elements with an equal key
RECURSIVE InsertUnstable(_, _, _)
InsertUnstable(ts, s, x) ==
    IF s = <<>> THEN <<x>>
    ELSE IF KeyLT(ts, Head(s), x) THEN <<Head(s)>> \o InsertUnstable(ts, Tail(s), x)
    ELSE <<x>> \o s

\* list.sort: stable, ascending by key
RECURSIVE SortStable(_, _)
SortStable(ts, s) ==
    IF s = <<>> THEN <<>>
    ELSE InsertStable(ts, SortStable(ts, SubSeq(s, 1, Len(s) - 1)), s[Len(s)])

RECURSIVE SortUnstable(_, _)
SortUnstable(ts, s) ==
    IF s = <<>> THEN <<>>
    ELSE InsertUnstable(ts, SortUnstable(ts, SubSeq(s, 1, Len(s) - 1)), s[Len(s)])

\* schedule_tasks with a sort that does not keep the order of equal keys
schedule_tasks_unstable(ts) == SortUnstable(ts, [i \in 1..Len(ts) |-> i])

\* schedule_tasks(task_set) with no filter: a new list of the tasks (by index)
schedule_tasks(ts) == SortStable(ts, [i \in 1..Len(ts) |-> i])

(***************************************************************************)
(* task_set.Task.to_dict / TaskSet.to_dict and the task-set file           *)
(***************************************************************************)
\* d = dict(self._raw); d.update({...}): the keys of the file that are no field
\* of Task (elapsed_seconds, last_run_at) are written back as they were read
TaskToDict(t) ==
    IF "raw_timing" \in DOMAIN t
    THEN [task_no |-> t.task_no, batch |-> t.batch, priority |-> t.priority,
          status |-> t.status, elapsed_seconds |-> t.raw_timing]
    ELSE [task_no |-> t.task_no, batch |-> t.batch,
          priority |-> t.priority, status |-> t.status]

TaskSetToDict(ts) == [i \in 1..Len(ts) |-> TaskToDict(ts[i])]

NoFile == [exists |-> FALSE, complete |-> FALSE, data |-> <<>>]

\* open(path, "w"): the file exists and is empty until the dump has finished
Truncated == [exists |-> TRUE, complete |-> FALSE, data |-> <<>>]

WholeFile(d) == [exists |-> TRUE, complete |-> TRUE, data |-> d]

SetStatus(ts, t, s) == [ts EXCEPT ![t].status = s]

(***************************************************************************)
(* Initial states                                                          *)
(***************************************************************************)
\* the task sets of a run: every task in batch 1 (file order is the schedule),
\* some of them completed by an earlier run, or no task run yet and task i in
\* batch NumTasks + 1 - i (the schedule is the file reversed)
RunTaskSets ==
    LET RunTasks(rev, st) ==
            [i \in 1..NumTasks |-> [task_no |-> i,
                                    batch |-> IF rev THEN NumTasks + 1 - i ELSE 1,
                                    priority |-> 50, status |-> st[i]]]
    IN {RunTasks(FALSE, st) : st \in [1..NumTasks -> {"not-started", "completed"}]}
       \cup {RunTasks(TRUE, [i \in 1..NumTasks |-> "not-started"])}

\* the inputs of a classification
NoVerdict == [at |-> "none", int |-> FALSE, to |-> FALSE, rc |-> 0, el |-> 0]

\* hist.int_task, done_at_int: the task whose execute_task call returned with
\*   the interrupted flag set, and the tasks that were completed then
\* hist.deadline_hit: the timeout branch was taken in the current call
\* hist.classified: the inputs of the last classification, until the loop moves on
\* hist.fallback_after_spawn: the pipe mode was started with a PTY child at hand
\* hist.prompts: tasks whose prompt file was written in the run directory
\* hist.skipped, hist.succeeded: the counters `skipped` and `succeeded` of _run_v3
NoHist == [int_task |-> 0, done_at_int |-> {}, deadline_hit |-> FALSE,
           classified |-> NoVerdict, fallback_after_spawn |-> FALSE,
           prompts |-> {}, skipped |-> 0, succeeded |-> 0]

Idle ==
    /\ pc = "start" /\ ret = "none" /\ idx = 1
    /\ interrupted = FALSE /\ ctrl_c_count = 0 /\ timed_out = FALSE
    /\ current_process = 0 /\ returncode = 0 /\ reaped = FALSE
    /\ alive = {} /\ exit_status = 0 /\ spawned = 0 /\ now = 0
    /\ return_code = 0 /\ elapsed = 0 /\ delay_left = 0 /\ failed = 0
    /\ exit_code = "running" /\ hist = NoHist

Init ==
    /\ tasks \in RunTaskSets
    /\ scheduled_tasks = schedule_tasks(tasks)
    /\ disk = WholeFile(TaskSetToDict(tasks))
    /\ tmp = NoFile
    /\ dry_run \in BOOLEAN
    /\ delay_range \in DelayRanges
    \* the run without delay is the run of the reversed task set
    /\ (delay_range = <<0, 0>>) = (tasks[1].batch # 1)
    /\ max_execution_seconds \in TimeoutChoices
    /\ result = <<>>
    /\ args = <<>>
    /\ Idle

Running == exit_code = "running"
cur == scheduled_tasks[idx]
deadline == max_execution_seconds * 10

\* the clock reading d tenths after n (readings beyond the last one coincide)
Advance(n, d) ==
    IF \E t \in Times : t >= n + d
    THEN CHOOSE t \in Times : t >= n + d /\ \A u \in Times : u >= n + d => t <= u
    ELSE CHOOSE t \in Times : \A u \in Times : u <= t

(***************************************************************************)
(* task_set.save_task_set (state.save_plan is the same code)               *)
(***************************************************************************)
varsNoFiles == <<tasks, scheduled_tasks, idx, dry_run, delay_range,
                 max_execution_seconds, interrupted, ctrl_c_count, timed_out,
                 current_process, returncode, reaped, alive, exit_status,
                 spawned, now, return_code, elapsed, delay_left, failed, result,
                 args>>

\* open(file_path, "w"): the save writes the target file in place
TargetAfterOpenInPlace(target) == Truncated

\* open(tmp_path, "w") opens the temp file: the target file is not touched
TargetAfterOpen(target) == target

\* tmp_path.replace(file_path)
TargetAfterReplace(target, tmpfile) == tmpfile

\* open(tmp_path, "w")
SaveOpen ==
    /\ Running /\ pc = "save_open"
    /\ tmp' = Truncated
    /\ disk' = TargetAfterOpen(disk)
    /\ pc' = "save_dump"
    /\ hist' = hist
    /\ UNCHANGED <<ret, exit_code>>
    /\ UNCHANGED varsNoFiles

\* json.dump(...); f.write("\n"); close
SaveDump ==
    /\ Running /\ pc = "save_dump"
    /\ tmp' = WholeFile(TaskSetToDict(tasks))
    /\ pc' = "save_rename"
    /\ hist' = hist
    /\ UNCHANGED <<disk, ret, exit_code>>
    /\ UNCHANGED varsNoFiles

\* the open or the write raises OSError: it propagates out of _run_v3
SaveError ==
    /\ Running /\ pc \in {"save_open", "save_dump"}
    /\ pc' = "aborted"
    /\ exit_code' = "exception"
    /\ hist' = hist
    /\ UNCHANGED <<disk, tmp, ret>>
    /\ UNCHANGED varsNoFiles

SaveReplace ==
    /\ Running /\ pc = "save_rename"
    /\ disk' = TargetAfterReplace(disk, tmp)
    /\ tmp' = NoFile
    /\ pc' = ret
    /\ ret' = "none"
    /\ hist' = hist
    /\ UNCHANGED exit_code
    /\ UNCHANGED varsNoFiles

(***************************************************************************)
(* TaskExecutor._run_v3: the loop up to the call of execute_task           *)
(***************************************************************************)
varsProc == <<current_process, returncode, reaped, alive, exit_status, spawned, now>>
varsConf == <<scheduled_tasks, dry_run, delay_range, max_execution_seconds, result,
              args>>
varsSig == <<interrupted, ctrl_c_count>>

\* total == 0 cannot happen (run_cmd returns before); _check_tool_available()
RunStart ==
    /\ Running /\ pc = "start"
    /\ \E tool_ok \in BOOLEAN :
          IF ~dry_run /\ ~tool_ok
          THEN pc' = "done" /\ exit_code' = "1"
          ELSE pc' = "loop" /\ exit_code' = exit_code
    /\ hist' = hist
    /\ UNCHANGED <<tasks, disk, tmp, ret, idx, timed_out, return_code, elapsed,
                   delay_left, failed>>
    /\ UNCHANGED <<varsProc, varsConf, varsSig>>

\* the for loop is exhausted, or `if self.interrupted: break`
LoopEnd ==
    /\ Running /\ pc = "loop"
    /\ idx > Len(scheduled_tasks) \/ interrupted
    /\ pc' = "end"
    /\ hist' = hist
    /\ UNCHANGED <<tasks, disk, tmp, ret, idx, timed_out, return_code, elapsed,
                   delay_left, failed, exit_code>>
    /\ UNCHANGED <<varsProc, varsConf, varsSig>>

\* a completed task that is passed over but counted as a failed attempt
SkipCompletedAttempted ==
    /\ Running /\ pc = "loop"
    /\ idx <= Len(scheduled_tasks) /\ ~interrupted
    /\ tasks[cur].status = "completed"
    /\ idx' = idx + 1
    /\ failed' = failed + 1
    /\ hist' = hist
    /\ UNCHANGED <<tasks, disk, tmp, pc, ret, timed_out, return_code, elapsed,
                   delay_left, exit_code>>
    /\ UNCHANGED <<varsProc, varsConf, varsSig>>

\* `if task.status == "completed": ... continue`
SkipCompleted ==
    /\ Running /\ pc = "loop"
    /\ idx <= Len(scheduled_tasks) /\ ~interrupted
    /\ tasks[cur].status = "completed"
    /\ idx' = idx + 1
    /\ hist' = [hist EXCEPT !.skipped = @ + 1]
    /\ UNCHANGED <<tasks, disk, tmp, pc, ret, timed_out, return_code, elapsed,
                   delay_left, failed, exit_code>>
    /\ UNCHANGED <<varsProc, varsConf, varsSig>>

\* a dry run that moves on without writing the prompt file
DryRunTaskNoPrompt ==
    /\ Running /\ pc = "loop"
    /\ idx <= Len(scheduled_tasks) /\ ~interrupted
    /\ tasks[cur].status # "completed"
    /\ dry_run
    /\ idx' = idx + 1
    /\ hist' = hist
    /\ UNCHANGED <<tasks, disk, tmp, pc, ret, timed_out, return_code, elapsed,
                   delay_left, failed, exit_code>>
    /\ UNCHANGED <<varsProc, varsConf, varsSig>>

\* prompt file written; `if self.dry_run: ... continue`
DryRunTask ==
    /\ Running /\ pc = "loop"
    /\ idx <= Len(scheduled_tasks) /\ ~interrupted
    /\ tasks[cur].status # "completed"
    /\ dry_run
    /\ idx' = idx + 1
    /\ hist' = [hist EXCEPT !.prompts = @ \cup {cur}]
    /\ UNCHANGED <<tasks, disk, tmp, pc, ret, timed_out, return_code, elapsed,
                   delay_left, failed, exit_code>>
    /\ UNCHANGED <<varsProc, varsConf, varsSig>>

\* the task's own tool is not in PATH: task.status = "failed"; save_task_set
ToolMissing ==
    /\ Running /\ pc = "loop"
    /\ idx <= Len(scheduled_tasks) /\ ~interrupted
    /\ tasks[cur].status # "completed"
    /\ ~dry_run
    /\ tasks' = SetStatus(tasks, cur, "failed")
    /\ pc' = "save_open"
    /\ ret' = "tool_failed"
    /\ hist' = [hist EXCEPT !.prompts = @ \cup {cur}]
    /\ UNCHANGED <<disk, tmp, idx, timed_out, return_code, elapsed,
                   delay_left, failed, exit_code>>
    /\ UNCHANGED <<varsProc, varsConf, varsSig>>

\* `failed += 1; continue` after that save
ToolFailedContinue ==
    /\ Running /\ pc = "tool_failed"
    /\ failed' = failed + 1
    /\ idx' = idx + 1
    /\ pc' = "loop"
    /\ hist' = hist
    /\ UNCHANGED <<tasks, disk, tmp, ret, timed_out, return_code, elapsed,
                   delay_left, exit_code>>
    /\ UNCHANGED <<varsProc, varsConf, varsSig>>

\* task.status = "in-progress" without the save
MarkInProgressNoSave ==
    /\ Running /\ pc = "loop"
    /\ idx <= Len(scheduled_tasks) /\ ~interrupted
    /\ tasks[cur].status # "completed"
    /\ ~dry_run
    /\ tasks' = SetStatus(tasks, cur, "in-progress")
    /\ pc' = "execute"
    /\ hist' = [hist EXCEPT !.deadline_hit = FALSE, !.prompts = @ \cup {cur}]
    /\ UNCHANGED <<disk, tmp, ret, idx, timed_out, return_code, elapsed,
                   delay_left, failed, exit_code>>
    /\ UNCHANGED <<varsProc, varsConf, varsSig>>

\* task.status = "in-progress"; save_task_set
MarkInProgress ==
    /\ Running /\ pc = "loop"
    /\ idx <= Len(scheduled_tasks) /\ ~interrupted
    /\ tasks[cur].status # "completed"
    /\ ~dry_run
    /\ tasks' = SetStatus(tasks, cur, "in-progress")
    /\ pc' = "save_open"
    /\ ret' = "execute"
    /\ hist' = [hist EXCEPT !.deadline_hit = FALSE, !.prompts = @ \cup {cur}]
    /\ UNCHANGED <<disk, tmp, idx, timed_out, return_code, elapsed,
                   delay_left, failed, exit_code>>
    /\ UNCHANGED <<varsProc, varsConf, varsSig>>

(***************************************************************************)
(* Child processes and the kill helpers                                    *)
(***************************************************************************)
ChildRunning == current_process # 0 /\ current_process \in alive

\* proc.poll() on a dead child stores its exit status in proc.returncode
PollReaps ==
    /\ reaped' = TRUE
    /\ returncode' = IF reaped THEN returncode ELSE exit_status

\* os.killpg(pgid, SIGTERM); up to 50 polls 0.1 s apart; os.killpg(pgid, SIGKILL)
\* only when no poll saw the child dead.  waited: the time that passed before
\* the SIGTERM.  A poll that sees the child dead stores its exit status.
GracefulThenForced(waited) ==
    \/ \E rc \in {TERM_RC, 0, 1} :
          /\ alive' = alive \ {current_process}
          /\ exit_status' = rc
          /\ reaped' = TRUE
          /\ returncode' = rc
          /\ now' = Advance(now, waited)
    \/ /\ alive' = alive \ {current_process}
       /\ exit_status' = KILL_RC
       /\ UNCHANGED <<reaped, returncode>>
       /\ now' = Advance(now, waited + 50)

\* TaskExecutor._kill_child (waited: the time the caller spent before the call)
kill_child(waited) ==
    IF current_process = 0
    THEN UNCHANGED <<alive, exit_status, reaped, returncode, now>>
    ELSE IF current_process \notin alive
    THEN PollReaps /\ UNCHANGED <<alive, exit_status, now>>
    ELSE GracefulThenForced(waited)

\* TaskExecutor._timeout_kill
timeout_kill ==
    IF current_process = 0
    THEN UNCHANGED <<alive, exit_status, reaped, returncode, now>>
    ELSE IF current_process \notin alive
    THEN PollReaps /\ UNCHANGED <<alive, exit_status, now>>
    ELSE GracefulThenForced(0)

\* TaskExecutor._force_kill: SIGKILL at once, no SIGTERM, no wait
force_kill ==
    IF current_process = 0
    THEN UNCHANGED <<alive, exit_status, reaped, returncode, now>>
    ELSE IF current_process \notin alive
    THEN PollReaps /\ UNCHANGED <<alive, exit_status, now>>
    ELSE /\ alive' = alive \ {current_process}
         /\ exit_status' = KILL_RC
         /\ UNCHANGED <<reaped, returncode, now>>

\* which children are left running by _ensure_child_cleaned_up
AliveAfterCleanup(a, proc) == a \ {proc}

\* TaskExecutor._ensure_child_cleaned_up: poll; SIGTERM, 5 s, SIGKILL; reap;
\* self.current_process = None (the dropped handle's fields are forgotten)
ensure_child_cleaned_up ==
    /\ current_process' = 0
    /\ reaped' = FALSE /\ returncode' = 0 /\ exit_status' = 0
    /\ alive' = AliveAfterCleanup(alive, current_process)

\* a running child exits by itself (the tool finishes or crashes)
ChildExit ==
    /\ \E p \in alive :
          /\ alive' = alive \ {p}
          /\ IF p = current_process
             THEN \E rc \in {0, 1} : exit_status' = rc
             ELSE exit_status' = exit_status
    /\ UNCHANGED <<hist, tasks, disk, tmp, pc, ret, idx, timed_out, return_code, elapsed,
                   delay_left, failed, exit_code, current_process, returncode,
                   reaped, spawned, now>>
    /\ UNCHANGED <<varsConf, varsSig>>

ExecPcs == {"pty_loop", "pty_wait", "pipe_popen", "pipe_loop", "pipe_wait", "finally"}

\* wall-clock time passes while execute_task runs
Tick ==
    /\ Running /\ pc \in ExecPcs
    /\ \E t \in Times : t > now /\ now' = t
    /\ UNCHANGED <<hist, tasks, disk, tmp, pc, ret, idx, timed_out, return_code, elapsed,
                   delay_left, failed, exit_code, current_process, returncode,
                   reaped, alive, exit_status, spawned>>
    /\ UNCHANGED <<varsConf, varsSig>>

(***************************************************************************)
(* TaskExecutor.execute_task, _execute_with_pty, _execute_with_pipe        *)
(***************************************************************************)
varsLoop == <<tasks, disk, tmp, idx, delay_left, failed, exit_code>>

\* execute_task without the reset of the flag
TimedOutAtEntryStale(old) == old

\* execute_task: self._timed_out = False
TimedOutAtEntry(old) == FALSE

\* a pid that no running child and no unreaped handle uses
FreePid == CHOOSE p \in 1..(2 * NumTasks + 1) :
              /\ p \notin alive \cup {current_process}
              /\ \A q \in 1..(p - 1) : q \in alive \cup {current_process}

\* subprocess.Popen(...) assigned to self.current_process
Spawn(n) ==
    /\ current_process' = FreePid
    /\ spawned' = n + 1
    /\ alive' = alive \cup {FreePid}
    /\ reaped' = FALSE
    /\ now' = 0
    /\ UNCHANGED <<returncode, exit_status>>

\* execute_task entry and _execute_with_pty up to the read loop: openpty or
\* Popen may raise, which execute_task answers with the pipe mode
ExecPtyStart ==
    /\ Running /\ pc = "execute"
    /\ timed_out' = TimedOutAtEntry(timed_out)
    /\ \E pty_ok \in BOOLEAN :
          IF pty_ok
          THEN Spawn(0) /\ pc' = "pty_loop"
          ELSE /\ spawned' = 0 /\ pc' = "pipe_popen"
               /\ UNCHANGED <<current_process, returncode, reaped, alive,
                              exit_status, now>>
    /\ hist' = [hist EXCEPT !.fallback_after_spawn = FALSE]
    /\ UNCHANGED <<ret, return_code, elapsed>>
    /\ UNCHANGED <<varsLoop, varsConf, varsSig>>

\* `if self.interrupted: break`
PtyBreakInterrupted ==
    /\ Running /\ pc = "pty_loop"
    /\ interrupted
    /\ pc' = "pty_wait"
    /\ hist' = hist
    /\ UNCHANGED <<ret, timed_out, return_code, elapsed>>
    /\ UNCHANGED <<varsLoop, varsConf, varsSig, varsProc>>

\* `if time.time() >= deadline: self._timed_out = True; self._timeout_kill(); break`
PtyTimeout ==
    /\ Running /\ pc = "pty_loop"
    /\ ~interrupted
    /\ now >= deadline
    /\ timed_out' = TRUE
    /\ timeout_kill
    /\ hist' = [hist EXCEPT !.deadline_hit = TRUE]
    /\ pc' = "pty_wait"
    /\ UNCHANGED <<ret, return_code, elapsed, current_process, spawned>>
    /\ UNCHANGED <<varsLoop, varsConf, varsSig>>

\* select/read report end of file (b"", EIO, a closed descriptor): break
PtyReadEOF ==
    /\ Running /\ pc = "pty_loop"
    /\ ~interrupted /\ now < deadline
    /\ pc' = "pty_wait"
    /\ hist' = hist
    /\ UNCHANGED <<ret, timed_out, return_code, elapsed>>
    /\ UNCHANGED <<varsLoop, varsConf, varsSig, varsProc>>

\* os.read, os.write or log_file.write raise an OSError other than EIO (or
\* open(log_path) raises): the exception leaves _execute_with_pty and
\* execute_task's `except Exception` starts the pipe mode
PtyReadError ==
    /\ Running /\ pc = "pty_loop"
    /\ ~interrupted /\ now < deadline
    /\ pc' = "pipe_popen"
    /\ hist' = hist
    /\ UNCHANGED <<ret, timed_out, return_code, elapsed>>
    /\ UNCHANGED <<varsLoop, varsConf, varsSig, varsProc>>

\* `if self.current_process.poll() is not None: drain; break`
PtyChildExited ==
    /\ Running /\ pc = "pty_loop"
    /\ ~interrupted /\ now < deadline
    /\ ~ChildRunning
    /\ PollReaps
    /\ pc' = "pty_wait"
    /\ hist' = hist
    /\ UNCHANGED <<ret, timed_out, return_code, elapsed, current_process, alive,
                   exit_status, spawned, now>>
    /\ UNCHANGED <<varsLoop, varsConf, varsSig>>

\* return_code = returncode if it is not None else -1; elapsed; the handle is
\* dropped
ReturnFromSupervisor ==
    /\ return_code' = IF reaped' THEN returncode' ELSE UNKNOWN_RC
    /\ elapsed' = now'
    /\ current_process' = 0
    /\ pc' = "finally"
    /\ ret' = "classify"

\* self.current_process.wait(timeout=10) returns: the child is dead
WaitReaped ==
    /\ Running /\ pc \in {"pty_wait", "pipe_wait"}
    /\ ~ChildRunning
    /\ PollReaps
    /\ now' = now
    /\ ReturnFromSupervisor
    /\ hist' = hist
    /\ UNCHANGED <<timed_out, alive, exit_status, spawned>>
    /\ UNCHANGED <<varsLoop, varsConf, varsSig>>

\* wait(timeout=10) raises TimeoutExpired: self._kill_child()
WaitExpired ==
    /\ Running /\ pc \in {"pty_wait", "pipe_wait"}
    /\ ChildRunning
    /\ kill_child(100)
    /\ hist' = hist
    /\ ReturnFromSupervisor
    /\ UNCHANGED <<timed_out, spawned>>
    /\ UNCHANGED <<varsLoop, varsConf, varsSig>>

\* _execute_with_pipe: Popen, which overwrites self.current_process; if it
\* raises, the exception leaves execute_task through its finally clause
PipePopen ==
    /\ Running /\ pc = "pipe_popen"
    /\ \E popen_ok \in BOOLEAN :
          IF popen_ok
          THEN /\ Spawn(spawned) /\ pc' = "pipe_loop" /\ ret' = ret
               /\ hist' = [hist EXCEPT !.fallback_after_spawn = (current_process # 0)]
          ELSE /\ UNCHANGED varsProc /\ pc' = "finally" /\ ret' = "aborted"
               /\ hist' = hist
    /\ UNCHANGED <<timed_out, return_code, elapsed>>
    /\ UNCHANGED <<varsLoop, varsConf, varsSig>>

\* readline returned a line and the flag is set: break
PipeLineInterrupted ==
    /\ Running /\ pc = "pipe_loop"
    /\ interrupted
    /\ pc' = "pipe_wait"
    /\ hist' = hist
    /\ UNCHANGED <<ret, timed_out, return_code, elapsed>>
    /\ UNCHANGED <<varsLoop, varsConf, varsSig, varsProc>>

\* readline returned a line after the deadline: _timed_out, _timeout_kill, break
PipeLineTimeout ==
    /\ Running /\ pc = "pipe_loop"
    /\ ~interrupted
    /\ now >= deadline
    /\ timed_out' = TRUE
    /\ timeout_kill
    /\ hist' = [hist EXCEPT !.deadline_hit = TRUE]
    /\ pc' = "pipe_wait"
    /\ UNCHANGED <<ret, return_code, elapsed, current_process, spawned>>
    /\ UNCHANGED <<varsLoop, varsConf, varsSig>>

\* readline returned a line and writing it to stdout or to the log raises
PipeLineError ==
    /\ Running /\ pc = "pipe_loop"
    /\ ~interrupted /\ now < deadline
    /\ pc' = "finally"
    /\ ret' = "aborted"
    /\ hist' = hist
    /\ UNCHANGED <<timed_out, return_code, elapsed>>
    /\ UNCHANGED <<varsLoop, varsConf, varsSig, varsProc>>

\* readline returned b"" because the child is dead
PipeEOF ==
    /\ Running /\ pc = "pipe_loop"
    /\ ~ChildRunning
    /\ pc' = "pipe_wait"
    /\ hist' = hist
    /\ UNCHANGED <<ret, timed_out, return_code, elapsed>>
    /\ UNCHANGED <<varsLoop, varsConf, varsSig, varsProc>>

\* readline returned b"" because the running child closed its output
PipeOutputClosed ==
    /\ Running /\ pc = "pipe_loop"
    /\ ChildRunning
    /\ pc' = "pipe_wait"
    /\ hist' = hist
    /\ UNCHANGED <<ret, timed_out, return_code, elapsed>>
    /\ UNCHANGED <<varsLoop, varsConf, varsSig, varsProc>>

\* execute_task's finally clause, then the return or the propagation
Finally ==
    /\ Running /\ pc = "finally"
    /\ ensure_child_cleaned_up
    /\ hist' = [hist EXCEPT !.int_task = IF ret = "classify" /\ interrupted
                                    THEN cur ELSE hist.int_task,
                       !.done_at_int =
                            IF ret = "classify" /\ interrupted
                            THEN {t \in 1..Len(tasks) : tasks[t].status = "completed"}
                            ELSE hist.done_at_int]
    /\ pc' = ret
    /\ ret' = "none"
    /\ exit_code' = IF ret = "aborted" THEN "exception" ELSE exit_code
    /\ now' = 0 /\ spawned' = 0
    /\ UNCHANGED <<tasks, disk, tmp, idx, delay_left, failed, timed_out,
                   return_code, elapsed>>
    /\ UNCHANGED <<varsConf, varsSig>>

(***************************************************************************)
(* TaskExecutor._run_v3: classification of the result and the rest of the  *)
(* loop body                                                               *)
(***************************************************************************)
\* a guard that also rejects a run of exactly the minimum
BelowMinimumInclusive(el) == el <= MIN_EXECUTION_SECONDS * 10

\* elapsed < MIN_EXECUTION_SECONDS (el in tenths of a second)
BelowMinimum(el) == el < MIN_EXECUTION_SECONDS * 10

\* the timeout is looked at before the interrupted flag
FinalStatusTimeoutFirst(int, to, rc, el) ==
    IF to THEN "failed"
    ELSE IF int THEN "interrupted"
    ELSE IF rc # 0 THEN "failed"
    ELSE IF BelowMinimum(el) THEN "failed"
    ELSE "completed"

\* lines 1072-1162: interrupted, then _timed_out, then the exit code, then the
\* MIN_EXECUTION_SECONDS guard (el in tenths of a second)
FinalStatus(int, to, rc, el) ==
    IF int THEN "interrupted"
    ELSE IF to THEN "failed"
    ELSE IF rc # 0 THEN "failed"
    ELSE IF BelowMinimum(el) THEN "failed"
    ELSE "completed"

\* where the loop goes after the save that follows the classification
AfterSave(int, to) ==
    IF int THEN "after_interrupt" ELSE IF to THEN "after_timeout" ELSE "after_result"

Classify ==
    /\ Running /\ pc = "classify"
    /\ tasks' = SetStatus(tasks, cur,
                          FinalStatus(interrupted, timed_out, return_code, elapsed))
    /\ failed' = IF ~interrupted /\ ~timed_out
                    /\ FinalStatus(interrupted, timed_out, return_code, elapsed) = "failed"
                 THEN failed + 1 ELSE failed
    /\ pc' = "save_open"
    /\ ret' = AfterSave(interrupted, timed_out)
    /\ return_code' = 0 /\ elapsed' = 0
    /\ hist' = [hist EXCEPT !.classified =
                    [at |-> "result", int |-> interrupted, to |-> hist.deadline_hit,
                     rc |-> return_code, el |-> elapsed],
                    !.succeeded =
                       IF ~interrupted /\ ~timed_out
                          /\ FinalStatus(interrupted, timed_out, return_code, elapsed)
                               = "completed"
                       THEN @ + 1 ELSE @]
    /\ UNCHANGED <<disk, tmp, idx, delay_left, exit_code, timed_out>>
    /\ UNCHANGED <<varsProc, varsConf, varsSig>>

\* the interrupt notification, then `break`
AfterInterrupt ==
    /\ Running /\ pc = "after_interrupt"
    /\ pc' = "end"
    /\ hist' = [hist EXCEPT !.classified = NoVerdict]
    /\ UNCHANGED <<tasks, disk, tmp, ret, idx, delay_left, failed, exit_code,
                   timed_out, return_code, elapsed>>
    /\ UNCHANGED <<varsProc, varsConf, varsSig>>

\* `failed += 1` ... `continue` of the timeout branch
AfterTimeout ==
    /\ Running /\ pc = "after_timeout"
    /\ failed' = failed + 1
    /\ idx' = idx + 1
    /\ pc' = "loop"
    /\ hist' = [hist EXCEPT !.classified = NoVerdict]
    /\ UNCHANGED <<tasks, disk, tmp, ret, delay_left, exit_code,
                   timed_out, return_code, elapsed>>
    /\ UNCHANGED <<varsProc, varsConf, varsSig>>

\* a delay that does not look at how the task ended
NoDelayWhateverResult ==
    \/ dry_run \/ interrupted
    \/ delay_range[1] = 0 /\ delay_range[2] = 0
    \/ idx >= Len(scheduled_tasks)

\* _inter_task_delay(idx, tasks[idx + 1:], last_success=success): no delay
NoDelay ==
    \/ dry_run \/ interrupted
    \/ tasks[cur].status # "completed"
    \/ delay_range[1] = 0 /\ delay_range[2] = 0
    \/ idx >= Len(scheduled_tasks)

AfterResult ==
    /\ Running /\ pc = "after_result"
    /\ IF NoDelay
       THEN idx' = idx + 1 /\ pc' = "loop" /\ delay_left' = delay_left
       ELSE /\ \E d \in delay_range[1]..Max2(delay_range[1], delay_range[2]) :
                  delay_left' = d
            /\ pc' = "delay" /\ idx' = idx
    /\ hist' = [hist EXCEPT !.classified = NoVerdict]
    /\ UNCHANGED <<tasks, disk, tmp, ret, failed, exit_code,
                   timed_out, return_code, elapsed>>
    /\ UNCHANGED <<varsProc, varsConf, varsSig>>

\* a countdown that only ends when the time is up
DelayOverTimeOnly == delay_left = 0

\* `for remaining in range(delay, 0, -1): if self.interrupted: return`
DelayOver == delay_left = 0 \/ interrupted

\* one iteration of the countdown: `if self.interrupted: return`; sleep(1)
DelayStep ==
    /\ Running /\ pc = "delay"
    /\ IF DelayOver
       THEN idx' = idx + 1 /\ pc' = "loop" /\ delay_left' = 0
       ELSE delay_left' = delay_left - 1 /\ pc' = pc /\ idx' = idx
    /\ hist' = hist
    /\ UNCHANGED <<tasks, disk, tmp, ret, failed, exit_code,
                   timed_out, return_code, elapsed>>
    /\ UNCHANGED <<varsProc, varsConf, varsSig>>

\* a result that looks at the failure counter only
RunEndFailuresOnly ==
    /\ Running /\ pc = "end"
    /\ exit_code' = IF failed = 0 THEN "0" ELSE "1"
    /\ pc' = "done"
    /\ hist' = hist
    /\ UNCHANGED <<tasks, disk, tmp, ret, idx, delay_left, failed,
                   timed_out, return_code, elapsed>>
    /\ UNCHANGED <<varsProc, varsConf, varsSig>>

\* `return 0 if failed == 0 and not self.interrupted else 1`
RunEnd ==
    /\ Running /\ pc = "end"
    /\ exit_code' = IF failed = 0 /\ ~interrupted THEN "0" ELSE "1"
    /\ pc' = "done"
    /\ hist' = hist
    /\ UNCHANGED <<tasks, disk, tmp, ret, idx, delay_left, failed,
                   timed_out, return_code, elapsed>>
    /\ UNCHANGED <<varsProc, varsConf, varsSig>>

(***************************************************************************)
(* TaskExecutor._signal_handler                                            *)
(***************************************************************************)
\* the handler exits on the third signal only
ForceExitLate(count) == count >= 3

\* `elif self._ctrl_c_count >= 2:` _force_kill and os._exit(130)
ForceExit(count) == count >= 2

\* SIGINT or SIGTERM is delivered to the runner; the handler runs on the main
\* thread between two steps of the loop
Signal ==
    /\ Running
    /\ ctrl_c_count' = ctrl_c_count + 1
    /\ interrupted' = TRUE
    /\ IF ForceExit(ctrl_c_count + 1)
       THEN /\ force_kill
            /\ exit_code' = "130"
       ELSE /\ kill_child(0)
            /\ exit_code' = exit_code
    /\ hist' = hist
    /\ UNCHANGED <<tasks, disk, tmp, pc, ret, idx, delay_left, failed,
                   timed_out, return_code, elapsed, current_process, spawned>>
    /\ UNCHANGED varsConf

Next ==
    \/ RunStart \/ LoopEnd \/ SkipCompleted \/ DryRunTask \/ ToolMissing
    \/ ToolFailedContinue \/ MarkInProgress
    \/ SaveOpen \/ SaveDump \/ SaveError \/ SaveReplace
    \/ ExecPtyStart \/ PtyBreakInterrupted \/ PtyTimeout \/ PtyReadEOF
    \/ PtyReadError \/ PtyChildExited \/ WaitReaped \/ WaitExpired
    \/ PipePopen \/ PipeLineInterrupted \/ PipeLineTimeout \/ PipeLineError
    \/ PipeEOF \/ PipeOutputClosed \/ Finally
    \/ Classify \/ AfterInterrupt \/ AfterTimeout \/ AfterResult \/ DelayStep
    \/ RunEnd \/ Signal \/ ChildExit \/ Tick

Spec == Init /\ [][Next]_vars

\* The steps the runner takes by itself: they need no output, exit or signal
\* from outside, so the interpreter is bound to take them.
SupervisorStep ==
    \/ RunStart \/ LoopEnd \/ SkipCompleted \/ DryRunTask \/ ToolMissing
    \/ ToolFailedContinue \/ MarkInProgress
    \/ SaveOpen \/ SaveDump \/ SaveReplace
    \/ ExecPtyStart \/ PtyBreakInterrupted \/ PtyTimeout \/ PtyChildExited
    \/ WaitReaped \/ WaitExpired \/ PipePopen \/ PipeEOF \/ Finally
    \/ Classify \/ AfterInterrupt \/ AfterTimeout \/ AfterResult \/ DelayStep
    \/ RunEnd

\* The runner keeps running and the clock keeps going; nothing is assumed of
\* the children and of the user.
FairSpec == Spec /\ WF_vars(SupervisorStep) /\ WF_vars(Tick)

(***************************************************************************)
(* The scheduler on its own: schedule_tasks applied to any small task set  *)
(***************************************************************************)
SchedTask(i) == [task_no : {i}, batch : 1..MaxBatch, priority : 1..MaxPriority,
                 status : {"not-started"}]

SchedTaskSets ==
    UNION {{ts \in [1..n -> UNION {SchedTask(i) : i \in 1..n}] :
               \A i \in 1..n : ts[i].task_no = i} : n \in 0..MaxLen}

SchedInit ==
    /\ tasks \in SchedTaskSets
    /\ scheduled_tasks = <<>>
    /\ disk = WholeFile(TaskSetToDict(tasks))
    /\ tmp = NoFile
    /\ dry_run = FALSE
    /\ delay_range = <<0, 0>>
    /\ max_execution_seconds = 12
    /\ result = <<>>
    /\ args = <<>>
    /\ Idle

\* tasks = list(task_set.tasks): the sort works on a copy
TasksAfterSchedule(ts) == ts

Schedule ==
    /\ pc = "start"
    /\ result' = schedule_tasks(tasks)
    /\ tasks' = TasksAfterSchedule(tasks)
    /\ pc' = "scheduled"
    /\ UNCHANGED <<scheduled_tasks, disk, tmp, ret, idx, dry_run, delay_range,
                   max_execution_seconds, interrupted, ctrl_c_count, timed_out,
                   current_process, returncode, reaped, alive, exit_status,
                   spawned, now, return_code, elapsed, delay_left, failed,
                   exit_code, hist, args>>

SchedNext == Schedule

SchedSpec == SchedInit /\ [][SchedNext]_vars

TypeOK ==
    /\ disk.exists
    /\ current_process \in 0..(2 * NumTasks + 1)
    /\ alive \subseteq 1..(2 * NumTasks + 1)
    /\ spawned \in 0..2
    /\ \A t \in 1..Len(tasks) : tasks[t].status \in Statuses

(***************************************************************************)
(* scheduler.schedule_tasks with its filters                               *)
(* An optional argument is <<>> for None and <<v>> for the value v; the    *)
(* status filter is "" when it is not given (None and "" are both falsy).  *)
(***************************************************************************)
\* tasks = [t for t in tasks if t.batch == batch]
FilterBatch(ts, s, batch) ==
    IF batch # <<>> THEN SelectSeq(s, LAMBDA i : ts[i].batch = batch[1]) ELSE s

\* a priority filter that drops the tasks whose priority equals the bound
PriorityPassesStrict(p, min_priority) == p < min_priority

\* t.priority <= min_priority
PriorityPasses(p, min_priority) == p <= min_priority

\* tasks = [t for t in tasks if t.priority <= min_priority]
FilterMinPriority(ts, s, min_priority) ==
    IF min_priority # <<>>
    THEN SelectSeq(s, LAMBDA i : PriorityPasses(ts[i].priority, min_priority[1]))
    ELSE s

\* tasks = [t for t in tasks if t.status == status_filter]
FilterStatus(ts, s, status_filter) ==
    IF status_filter # "" THEN SelectSeq(s, LAMBDA i : ts[i].status = status_filter)
    ELSE s

\* tasks = [t for t in tasks if t.status in {"failed", "interrupted"}]
FilterRetryFailed(ts, s, retry_failed) ==
    IF retry_failed
    THEN SelectSeq(s, LAMBDA i : ts[i].status \in {"failed", "interrupted"})
    ELSE s

\* an anchor that is not in the list empties the schedule
StartFromAbsentEmpty(s) == <<>>

\* if found: tasks = filtered; otherwise tasks stays as it is
StartFromAbsent(s) == s

\* the loop over tasks that keeps everything from the first match on
StartFrom(ts, s, start_from) ==
    IF start_from = <<>> THEN s
    ELSE IF \E k \in 1..Len(s) : ts[s[k]].task_no = start_from[1]
    THEN LET k == CHOOSE k \in 1..Len(s) :
                     /\ ts[s[k]].task_no = start_from[1]
                     /\ \A j \in 1..(k - 1) : ts[s[j]].task_no # start_from[1]
         IN SubSeq(s, k, Len(s))
    ELSE StartFromAbsent(s)

\* schedule_tasks(task_set, batch, min_priority, status_filter, start_from,
\*                retry_failed)
schedule_tasks_args(ts, a) ==
    StartFrom(ts,
        FilterRetryFailed(ts,
            FilterStatus(ts,
                FilterMinPriority(ts,
                    FilterBatch(ts, schedule_tasks(ts), a.batch),
                    a.min_priority),
                a.status_filter),
            a.retry_failed),
        a.start_from)

FilterBatches == {1, 2}
FilterPriorities == {1, 2}

FilterTask(i) == [task_no : {i}, batch : FilterBatches, priority : FilterPriorities,
                  status : {"not-started", "failed", "interrupted"}]

FilterTaskSets ==
    UNION {{ts \in [1..n -> UNION {FilterTask(i) : i \in 1..n}] :
               \A i \in 1..n : ts[i].task_no = i} : n \in 0..MaxFilterLen}

\* the anchor MaxFilterLen + 1 is the task_no of no task
FilterArgs ==
    [batch : {<<>>, <<1>>}, min_priority : {<<>>, <<1>>},
     status_filter : {"", "failed"}, retry_failed : BOOLEAN,
     start_from : {<<>>} \cup {<<x>> : x \in 1..(MaxFilterLen + 1)}]

FilterInit ==
    /\ tasks \in FilterTaskSets
    /\ args \in FilterArgs
    /\ scheduled_tasks = <<>>
    /\ disk = WholeFile(TaskSetToDict(tasks))
    /\ tmp = NoFile
    /\ dry_run = FALSE
    /\ delay_range = <<0, 0>>
    /\ max_execution_seconds = 12
    /\ result = <<>>
    /\ Idle

varsRun == <<scheduled_tasks, disk, tmp, ret, idx, dry_run, delay_range,
             max_execution_seconds, interrupted, ctrl_c_count, timed_out,
             current_process, returncode, reaped, alive, exit_status,
             spawned, now, return_code, elapsed, delay_left, failed,
             exit_code, hist>>

ScheduleFiltered ==
    /\ pc = "start"
    /\ result' = schedule_tasks_args(tasks, args)
    /\ pc' = "scheduled"
    /\ UNCHANGED <<tasks, args, varsRun>>

FilterNext == ScheduleFiltered

FilterSpec == FilterInit /\ [][FilterNext]_vars

(***************************************************************************)
(* scheduler.validate_dependencies and scheduler.get_execution_plan        *)
(* depends_on is <<>> for None and <<d>> for the string d; the string      *)
(* EmptyStr is "", and a task_no is a string 1, 2, ...                     *)
(***************************************************************************)
EmptyStr == 0

\* "if task.depends_on" / "if dep": neither None nor ""
Truthy(dep) == dep # <<>> /\ dep[1] # EmptyStr

\* task_map = {t.task_no: t for t in task_set.tasks}, by index into the list
TaskNos(ts) == {ts[i].task_no : i \in 1..Len(ts)}
TaskMap(ts, no) == CHOOSE i \in 1..Len(ts) : ts[i].task_no = no

\* a check that takes the empty string for a reference as well
DanglingOrEmpty(ts, dep) == dep # <<>> /\ dep[1] \notin TaskNos(ts)

\* task.depends_on and task.depends_on not in task_map
Dangling(ts, dep) == Truthy(dep) /\ dep[1] \notin TaskNos(ts)

\* the first loop: one error per task whose depends_on is not a key of task_map
RECURSIVE MissingErrors(_, _)
MissingErrors(ts, i) ==
    IF i > Len(ts) THEN <<>>
    ELSE (IF Dangling(ts, ts[i].depends_on)
          THEN <<[kind |-> "missing", task |-> ts[i].task_no,
                  dep |-> ts[i].depends_on[1]]>>
          ELSE <<>>) \o MissingErrors(ts, i + 1)

\* a traversal that takes every task seen before for a task on the path
OnPathVisited(st, no) == no \in st.visited

\* "if task_no in in_stack": the task is on the path of the traversal
OnPath(st, no) == no \in st.in_stack

\* "return True" after a cycle was found: in_stack keeps task_no
InStackAfterCycle(in_stack, no) == in_stack

\* _dfs(task_no); st is the record of visited, in_stack, the errors so far and
\* the value returned
RECURSIVE dfs(_, _, _)
dfs(ts, st, no) ==
    IF OnPath(st, no) THEN [st EXCEPT !.ret = TRUE]
    ELSE IF no \in st.visited THEN [st EXCEPT !.ret = FALSE]
    ELSE IF no \notin TaskNos(ts) THEN [st EXCEPT !.ret = FALSE]
    ELSE LET st1 == [st EXCEPT !.visited = @ \cup {no}, !.in_stack = @ \cup {no}]
             dep == ts[TaskMap(ts, no)].depends_on
             st2 == IF Truthy(dep) THEN dfs(ts, st1, dep[1])
                    ELSE [st1 EXCEPT !.ret = FALSE]
         IN IF st2.ret
            THEN [st2 EXCEPT !.errors = Append(@, [kind |-> "cycle", task |-> no,
                                                   dep |-> EmptyStr]),
                             !.in_stack = InStackAfterCycle(@, no),
                             !.ret = TRUE]
            ELSE [st2 EXCEPT !.in_stack = @ \ {no}, !.ret = FALSE]

\* the second loop: _dfs from every task that was not visited yet
RECURSIVE DfsAll(_, _, _)
DfsAll(ts, st, i) ==
    IF i > Len(ts) THEN st
    ELSE DfsAll(ts, IF ts[i].task_no \notin st.visited THEN dfs(ts, st, ts[i].task_no)
                    ELSE st, i + 1)

\* validate_dependencies(task_set): the errors of the result, in order
validate_dependencies(ts) ==
    DfsAll(ts, [visited |-> {}, in_stack |-> {}, errors |-> MissingErrors(ts, 1),
                ret |-> FALSE], 1).errors

\* task.depends_on is None
NoDependency(dep) == dep = <<>>

\* a wave that takes the ready tasks whether or not they were placed before
ReadyWaveAgain(ts, ord, remaining, completed) ==
    SelectSeq(ord, LAMBDA i :
        \/ NoDependency(ts[i].depends_on)
        \/ ts[i].depends_on[1] \in completed)

\* the tasks (indices) of ord that are in remaining and ready, in ord's order
ReadyWave(ts, ord, remaining, completed) ==
    SelectSeq(ord, LAMBDA i :
        /\ ts[i].task_no \in remaining
        /\ \/ NoDependency(ts[i].depends_on)
           \/ ts[i].depends_on[1] \in completed)

\* [task_map[no] for no in sorted(remaining)]
RECURSIVE SortedRemaining(_, _, _)
SortedRemaining(ts, remaining, no) ==
    IF no > Len(ts) THEN <<>>
    ELSE (IF no \in remaining THEN <<TaskMap(ts, no)>> ELSE <<>>)
         \o SortedRemaining(ts, remaining, no + 1)

\* a plan that leaves the tasks out that never become ready
FallbackWaveNone(ts, remaining) == <<>>

\* the wave of the remaining tasks when no task is ready
FallbackWave(ts, remaining) == SortedRemaining(ts, remaining, 1)

\* the while loop; ord is the order in which list(remaining) yields the tasks
RECURSIVE PlanLoop(_, _, _, _, _, _)
PlanLoop(ts, ord, completed, remaining, waves, iteration) ==
    IF remaining = {} \/ iteration >= Len(ts) + 1 THEN waves
    ELSE LET wave == ReadyWave(ts, ord, remaining, completed)
             done == {ts[wave[i]].task_no : i \in 1..Len(wave)}
         IN IF wave = <<>>
            THEN Append(waves, FallbackWave(ts, remaining))
            ELSE PlanLoop(ts, ord, completed \cup done, remaining \ done,
                          Append(waves, SortStable(ts, wave)), iteration + 1)

\* get_execution_plan(task_set): the waves, each a list of tasks (by index)
get_execution_plan(ts, ord) == PlanLoop(ts, ord, {}, TaskNos(ts), <<>>, 0)

DepBatches == {1, 2}

DepTask(i) == [task_no : {i}, batch : DepBatches, priority : {1},
               status : {"not-started"},
               depends_on : {<<>>} \cup {<<d>> : d \in 0..(MaxDepLen + 1)}]

DepTaskSets ==
    UNION {{ts \in [1..n -> UNION {DepTask(i) : i \in 1..n}] :
               \A i \in 1..n : ts[i].task_no = i} : n \in 0..MaxDepLen}

\* the orders in which a set of n task_nos can be iterated
Orders(n) == {o \in [1..n -> 1..n] : \A i, j \in 1..n : i # j => o[i] # o[j]}

DepInit ==
    /\ tasks \in DepTaskSets
    /\ args = <<>>
    /\ scheduled_tasks = <<>>
    /\ disk = WholeFile(TaskSetToDict(tasks))
    /\ tmp = NoFile
    /\ dry_run = FALSE
    /\ delay_range = <<0, 0>>
    /\ max_execution_seconds = 12
    /\ result = <<>>
    /\ Idle

Validate ==
    /\ pc = "start"
    /\ result' = validate_dependencies(tasks)
    /\ pc' = "validated"
    /\ UNCHANGED <<tasks, args, varsRun>>

Plan ==
    /\ pc = "start"
    /\ \E ord \in Orders(Len(tasks)) : result' = get_execution_plan(tasks, ord)
    /\ pc' = "planned"
    /\ UNCHANGED <<tasks, args, varsRun>>

DepNext == Validate \/ Plan

DepSpec == DepInit /\ [][DepNext]_vars

(***************************************************************************)
(* commands.reset_cmd.handle_reset                                         *)
(* raw_timing: the keys elapsed_seconds and last_run_at of the task in the *)
(*   file ("absent", "null" or "set"); timing: the attributes              *)
(*   elapsed_seconds and last_run_at of the Task object ("unset" until     *)
(*   something assigns them: Task declares no such fields)                 *)
(***************************************************************************)
\* Task.from_dict(d): _raw keeps the whole dict
LoadTask(d) == [task_no |-> d.task_no, batch |-> d.batch, priority |-> d.priority,
                status |-> d.status, raw_timing |-> d.elapsed_seconds,
                timing |-> "unset"]

\* load_task_set
LoadTaskSet(data) == [i \in 1..Len(data) |-> LoadTask(data[i])]

\* has_filter = any([args.reset_all, args.status, args.start_from])
HasFilter(a) == a.reset_all \/ a.status # "" \/ Truthy(a.start_from)

\* the targets: batch filter, status filter, then from start_from onward in
\* (batch, priority) order; found is FALSE when start_from matches no target
ResetTargets(ts, a) ==
    LET t1 == FilterBatch(ts, [i \in 1..Len(ts) |-> i], a.batch)
        t2 == FilterStatus(ts, t1, a.status)
        t3 == SortStable(ts, t2)
    IN IF ~Truthy(a.start_from) THEN [found |-> TRUE, targets |-> t2]
       ELSE IF \E k \in 1..Len(t3) : ts[t3[k]].task_no = a.start_from[1]
       THEN [found |-> TRUE,
             targets |-> SubSeq(t3, CHOOSE k \in 1..Len(t3) :
                                       ts[t3[k]].task_no = a.start_from[1], Len(t3))]
       ELSE [found |-> FALSE, targets |-> <<>>]

\* the loop over the targets from position k on; it stops when reading
\* task.elapsed_seconds raises AttributeError
RECURSIVE ApplyReset(_, _, _)
ApplyReset(st, targets, k) ==
    IF k > Len(targets) THEN st
    ELSE LET t == targets[k]
         IN IF st.tasks[t].status = "not-started" /\ st.tasks[t].timing = "unset"
            THEN [st EXCEPT !.raised = TRUE]
            ELSE IF st.tasks[t].status = "not-started" /\ st.tasks[t].timing = "None"
            THEN ApplyReset([st EXCEPT !.already_clean = @ + 1], targets, k + 1)
            ELSE ApplyReset([st EXCEPT !.tasks[t].status = "not-started",
                                       !.tasks[t].timing = "None",
                                       !.reset_count = @ + 1], targets, k + 1)

ResetBatches == {1, 2}

ResetTaskSets ==
    [1..MaxResetLen -> [task_no : 1..MaxResetLen, batch : ResetBatches, priority : {1},
                        status : {"not-started", "failed", "completed"},
                        raw_timing : {"absent", "null", "set"},
                        timing : {"unset"}]]

\* the anchor MaxResetLen + 1 is the task_no of no task
ResetArgs ==
    [reset_all : BOOLEAN, status : {"", "failed"}, batch : {<<>>, <<1>>},
     start_from : {<<>>} \cup {<<x>> : x \in 1..(MaxResetLen + 1)}]

NoOutcome == [rc |-> "none", targets |-> 0, reset_count |-> 0, already_clean |-> 0,
              saved |-> FALSE]

\* hist.runs: the runs of the command so far; hist.before: the file before
\* the run; hist.first: the file after the first run
ResetInit ==
    /\ tasks \in {ts \in ResetTaskSets : \A i \in 1..MaxResetLen : ts[i].task_no = i}
    /\ args \in ResetArgs
    /\ disk = WholeFile(TaskSetToDict(tasks))
    /\ tmp = NoFile
    /\ pc = "start" /\ ret = "none" /\ idx = 1
    /\ result = NoOutcome
    /\ hist = [runs |-> 1, before |-> disk, first |-> disk]
    /\ scheduled_tasks = <<>>
    /\ dry_run = FALSE /\ delay_range = <<0, 0>> /\ max_execution_seconds = 12
    /\ interrupted = FALSE /\ ctrl_c_count = 0 /\ timed_out = FALSE
    /\ current_process = 0 /\ returncode = 0 /\ reaped = FALSE
    /\ alive = {} /\ exit_status = 0 /\ spawned = 0 /\ now = 0
    /\ return_code = 0 /\ elapsed = 0 /\ delay_left = 0 /\ failed = 0
    /\ exit_code = "running"

varsResetFixed == <<scheduled_tasks, idx, dry_run, delay_range,
                    max_execution_seconds, interrupted, ctrl_c_count, timed_out,
                    current_process, returncode, reaped, alive, exit_status,
                    spawned, now, return_code, elapsed, delay_left, failed, args>>

\* handle_reset up to the call of save_task_set
HandleReset ==
    /\ Running /\ pc = "start"
    /\ LET sel == ResetTargets(tasks, args)
           st == ApplyReset([tasks |-> tasks, reset_count |-> 0, already_clean |-> 0,
                             raised |-> FALSE], sel.targets, 1)
       IN IF ~HasFilter(args) \/ ~sel.found
          THEN /\ result' = [NoOutcome EXCEPT !.rc = "1"]
               /\ pc' = "done" /\ UNCHANGED <<tasks, ret, exit_code>>
          ELSE IF sel.targets = <<>>
          THEN /\ result' = [NoOutcome EXCEPT !.rc = "0"]
               /\ pc' = "done" /\ UNCHANGED <<tasks, ret, exit_code>>
          ELSE IF st.raised
          THEN /\ result' = [NoOutcome EXCEPT !.rc = "AttributeError",
                                              !.targets = Len(sel.targets)]
               /\ tasks' = st.tasks
               /\ pc' = "raised" /\ exit_code' = "exception" /\ UNCHANGED ret
          ELSE /\ result' = [rc |-> "0", targets |-> Len(sel.targets),
                             reset_count |-> st.reset_count,
                             already_clean |-> st.already_clean,
                             saved |-> st.reset_count > 0]
               /\ tasks' = st.tasks
               /\ IF st.reset_count = 0
                  THEN pc' = "done" /\ ret' = ret
                  ELSE pc' = "save_open" /\ ret' = "done"
               /\ UNCHANGED exit_code
    /\ UNCHANGED <<disk, tmp, hist, varsResetFixed>>

\* the same command is run once more on the file the last run left
ResetAgain ==
    /\ Running /\ pc = "done" /\ hist.runs = 1
    /\ tasks' = LoadTaskSet(disk.data)
    /\ hist' = [runs |-> 2, before |-> disk, first |-> disk]
    /\ result' = NoOutcome
    /\ pc' = "start"
    /\ UNCHANGED <<disk, tmp, ret, exit_code, varsResetFixed>>

ResetNext ==
    \/ HandleReset \/ ResetAgain
    \/ SaveOpen \/ SaveDump \/ SaveError \/ SaveReplace

ResetSpec == ResetInit /\ [][ResetNext]_vars

(***************************************************************************)
(* executor._sanitize_text                                                 *)
(* A line is a record: kind says which patterns the line matches once the  *)
(* escape sequences are out, id tells the text lines apart, esc says that  *)
(* the raw line holds ANSI escape sequences or carriage returns.           *)
(*   "text"      no pattern matches                                        *)
(*   "blank"     line.strip() is empty                                     *)
(*   "start"     _NOISE_BLOCK_START matches, _NOISE_BLOCK_END does not     *)
(*   "end"       only _NOISE_BLOCK_END matches ("</html>")                 *)
(*   "startend"  both match ("Error: peer closed connection ... </html>")  *)
(*   "noise"     only a pattern of _NOISE_LINE_PATTERNS matches            *)
(*               ("(incomplete chunked read)")                             *)
(*   "peer"      "Error: peer closed connection ..." without "</html>":    *)
(*               _NOISE_BLOCK_START and _NOISE_LINE_PATTERNS both match    *)
(***************************************************************************)
\* _ANSI_RE.sub("", raw_text), line by line
StripAnsi(line) == [line EXCEPT !.esc = FALSE]

\* _NOISE_BLOCK_START.search(stripped)
BlockStart(line) == line.kind \in {"start", "startend", "peer"}

\* an end test that misses the end marker on a line that also has a start marker
BlockEndOnly(line) == line.kind = "end"

\* _NOISE_BLOCK_END.search(stripped)
BlockEnd(line) == line.kind \in {"end", "startend"}

\* _is_noise_line(stripped)
IsNoiseLine(line) == line.kind \in {"noise", "peer"}

IsBlank(line) == line.kind = "blank"

\* a marker that stays set after every line that was kept
PrevBlankSticky(line) == TRUE

\* prev_blank = is_blank
PrevBlank(line) == IsBlank(line)

\* one round of the loop over the lines
SanitizeStep(st, raw) ==
    LET line == StripAnsi(raw)
    IN IF st.in_noise THEN [st EXCEPT !.in_noise = ~BlockEnd(line)]
       ELSE IF BlockStart(line) THEN [st EXCEPT !.in_noise = TRUE]
       ELSE IF IsNoiseLine(line) THEN st
       ELSE IF IsBlank(line) /\ st.prev_blank THEN st
       ELSE [st EXCEPT !.prev_blank = PrevBlank(line), !.clean = Append(@, line)]

RECURSIVE SanitizeLoop(_, _, _)
SanitizeLoop(st, lines, k) ==
    IF k > Len(lines) THEN st
    ELSE SanitizeLoop(SanitizeStep(st, lines[k]), lines, k + 1)

\* _sanitize_text(raw_text): the lines of the result
sanitize_text(lines) ==
    SanitizeLoop([clean |-> <<>>, in_noise |-> FALSE, prev_blank |-> FALSE],
                 lines, 1).clean

RawLines ==
    [kind : {"text"}, id : {1, 2}, esc : {FALSE}]
    \cup [kind : {"text"}, id : {1}, esc : {TRUE}]
    \cup [kind : {"blank", "start", "end", "startend", "noise"}, id : {0}, esc : {FALSE}]

SanitizeInit ==
    /\ args \in UNION {[1..n -> RawLines] : n \in 0..MaxLines}
    /\ tasks = <<>>
    /\ scheduled_tasks = <<>>
    /\ disk = WholeFile(<<>>)
    /\ tmp = NoFile
    /\ dry_run = FALSE
    /\ delay_range = <<0, 0>>
    /\ max_execution_seconds = 12
    /\ result = <<>>
    /\ Idle

Sanitize ==
    /\ pc = "start"
    /\ result' = sanitize_text(args)
    /\ pc' = "sanitized"
    /\ UNCHANGED <<tasks, args, varsRun>>

SanitizeNext == Sanitize

SanitizeSpec == SanitizeInit /\ [][SanitizeNext]_vars

\* the lines of a log with transport noise in it: the two single-line
\* noise patterns, the <html> block markers, text and blank lines
NoiseLines ==
    [kind : {"text"}, id : {1, 2}, esc : {FALSE}]
    \cup [kind : {"blank", "start", "end", "noise", "peer"}, id : {0}, esc : {FALSE}]

NoiseInit ==
    /\ args \in UNION {[1..n -> NoiseLines] : n \in 0..MaxNoiseLines}
    /\ tasks = <<>>
    /\ scheduled_tasks = <<>>
    /\ disk = WholeFile(<<>>)
    /\ tmp = NoFile
    /\ dry_run = FALSE
    /\ delay_range = <<0, 0>>
    /\ max_execution_seconds = 12
    /\ result = <<>>
    /\ Idle

NoiseSpec == NoiseInit /\ [][SanitizeNext]_vars

(***************************************************************************)
(* Tool and model resolution: run_cmd._execute, load_task_set, _run_v3     *)
(*                                                                         *)
(* args is the command line with the project configuration and the search  *)
(* path; "" stands for None (argparse gives None for an option not passed). *)
(* tasks[i].raw_cli is the "cli" object of the task data, tasks[i].cli the  *)
(* Task.cli attribute, tasks[i].cmd the tool and model of the built command *)
(***************************************************************************)
\* TOOL_CONFIGS, two of its entries: one tool without models, one with
ToolNames == {"kimi", "agent"}
SupportsModel(tool) == tool = "agent"
ToolModels(tool) ==
    IF tool = "agent" THEN {"opus-4.6", "sonnet-4.5", "gpt-5.3-codex"} ELSE {}
ToolDefaultModel(tool) == IF tool = "agent" THEN "opus-4.6" ELSE ""

\* Python's `a or b` on str | None
Or(a, b) == IF a # "" THEN a ELSE b

\* tool_name = cli_tool or config.default_tool
RunToolName(a) == Or(a.tool, a.default_tool)

\* `if model and supports_model and models and model not in models`
RunModelUnknown(a) ==
    /\ Or(a.model, a.default_model) # ""
    /\ SupportsModel(RunToolName(a))
    /\ ToolModels(RunToolName(a)) # {}
    /\ Or(a.model, a.default_model) \notin ToolModels(RunToolName(a))

\* the run-level model after validation
RunModel(a) ==
    IF ~SupportsModel(RunToolName(a)) THEN ""
    ELSE IF Or(a.model, a.default_model) = "" THEN ToolDefaultModel(RunToolName(a))
    ELSE Or(a.model, a.default_model)

\* load_task_set: project defaults fill the empty cli fields of every task
FillDefaults(ts, a) ==
    [i \in DOMAIN ts |->
        [ts[i] EXCEPT !.cli = [tool  |-> Or(ts[i].raw_cli.tool, a.default_tool),
                               model |-> Or(ts[i].raw_cli.model, a.default_model)]]]

\* task_tool_config: the task's own tool unless --tool was passed; an unknown
\* name is answered with a warning and the run's tool
TaskTool(t, a) ==
    IF t.cli.tool # "" /\ a.tool = "" /\ t.cli.tool \in ToolNames
    THEN t.cli.tool ELSE RunToolName(a)

\* task_model: the task's own model unless --model was passed
TaskModel(t, a) ==
    IF t.cli.model # "" /\ a.model = "" THEN t.cli.model ELSE RunModel(a)

\* _resolve_template_v3: a template that does not exist is passed over in
\* favour of the next one, down to the JSON dump of the task
Template(a) == IF a.template # "" /\ a.template \in a.templates THEN a.template ELSE "json"

NoCmd == [tool |-> "", model |-> "", template |-> ""]

CliTask ==
    [task_no : {0}, status : {"not-started"},
     raw_cli : [tool : {"", "kimi", "agent", "nosuchtool"},
                model : {"", "gpt-5.3-codex", "nosuchmodel"}],
     cli : {[tool |-> "", model |-> ""]}, cmd : {NoCmd}]

\* Task.from_dict: cli is the task's "cli" object
CliTaskSets ==
    {[i \in 1..MaxCliTasks |-> [ts[i] EXCEPT !.task_no = i, !.cli = ts[i].raw_cli]] :
        ts \in [1..MaxCliTasks -> CliTask]}

CliArgs ==
    [tool : {"", "agent"}, model : {"", "sonnet-4.5", "nosuchmodel"},
     default_tool : {"kimi", "agent", "nosuchtool"},
     default_model : {"", "opus-4.6"},
     template : {"", "missing.md"}, templates : {{}},
     path : {{"kimi", "agent"}, {"kimi"}}]

CliInit ==
    /\ tasks \in CliTaskSets
    /\ args \in CliArgs
    /\ scheduled_tasks = <<>>
    /\ disk = WholeFile(<<>>)
    /\ tmp = NoFile
    /\ dry_run = FALSE
    /\ delay_range = <<0, 0>>
    /\ max_execution_seconds = 12
    /\ result = <<>>
    /\ Idle

varsCliFixed == <<scheduled_tasks, disk, tmp, ret, dry_run, delay_range,
                  max_execution_seconds, interrupted, ctrl_c_count, timed_out,
                  current_process, returncode, reaped, alive, exit_status,
                  spawned, now, return_code, elapsed, delay_left, hist, args>>

\* _execute up to executor.run(): unknown tool or model -> return 1
Execute ==
    /\ Running /\ pc = "start"
    /\ IF RunToolName(args) \notin ToolNames \/ RunModelUnknown(args)
       THEN /\ exit_code' = "1" /\ pc' = "done"
            /\ UNCHANGED <<tasks, result>>
       ELSE /\ tasks' = FillDefaults(tasks, args)
            /\ result' = [tool |-> RunToolName(args), model |-> RunModel(args)]
            /\ pc' = "run"
            /\ exit_code' = exit_code
    /\ UNCHANGED <<idx, failed, varsCliFixed>>

\* `if not self.dry_run and not self._check_tool_available(): return 1`
CheckTool ==
    /\ Running /\ pc = "run"
    /\ IF result.tool \notin args.path
       THEN exit_code' = "1" /\ pc' = "done"
       ELSE exit_code' = exit_code /\ pc' = "loop"
    /\ UNCHANGED <<tasks, result, idx, failed, varsCliFixed>>

\* one task of the loop up to the built command, or the task's tool is not
\* in the search path: status failed, `failed += 1; continue`
ResolveTask ==
    /\ Running /\ pc = "loop" /\ idx <= Len(tasks)
    /\ LET tool == TaskTool(tasks[idx], args)
           model == TaskModel(tasks[idx], args)
       IN IF tool # result.tool /\ tool \notin args.path
          THEN /\ tasks' = [tasks EXCEPT ![idx].status = "failed"]
               /\ failed' = failed + 1
               /\ idx' = idx + 1
               /\ pc' = pc
          ELSE /\ tasks' = [tasks EXCEPT ![idx].status = "in-progress",
                                         ![idx].cmd = [tool |-> tool,
                                                       model |-> Or(model, result.model),
                                                       template |-> Template(args)]]
               /\ pc' = "execute"
               /\ UNCHANGED <<idx, failed>>
    /\ UNCHANGED <<result, exit_code, varsCliFixed>>

\* the command has run: the task is completed or failed
Executed ==
    /\ Running /\ pc = "execute"
    /\ \E success \in BOOLEAN :
          /\ tasks' = [tasks EXCEPT ![idx].status =
                          IF success THEN "completed" ELSE "failed"]
          /\ failed' = IF success THEN failed ELSE failed + 1
    /\ idx' = idx + 1
    /\ pc' = "loop"
    /\ UNCHANGED <<result, exit_code, varsCliFixed>>

\* `return 0 if failed == 0 and not self.interrupted else 1`
CliEnd ==
    /\ Running /\ pc = "loop" /\ idx > Len(tasks)
    /\ exit_code' = IF failed = 0 /\ ~interrupted THEN "0" ELSE "1"
    /\ pc' = "done"
    /\ UNCHANGED <<tasks, result, idx, failed, varsCliFixed>>

CliNext == Execute \/ CheckTool \/ ResolveTask \/ Executed \/ CliEnd

CliSpec == CliInit /\ [][CliNext]_vars

(***************************************************************************)
(* The task-set file across a load and a save: load_task_set, a status     *)
(* update of the loop, save_task_set.  tasks[i].raw_cli is the "cli" object *)
(* in Task._raw, "" a key that is not there; result is the content of the  *)
(* file as it was loaded.                                                  *)
(***************************************************************************)
\* Task.to_dict, the keys the model follows: d = dict(self._raw), the status,
\* and `if self.cli.tool or self.cli.model: d["cli"] = self.cli.to_dict()`
CliTaskToDict(t) ==
    [task_no |-> t.task_no, status |-> t.status,
     cli |-> IF t.cli.tool # "" \/ t.cli.model # "" THEN t.cli ELSE t.raw_cli]

CliTaskSetToDict(ts) == [i \in DOMAIN ts |-> CliTaskToDict(ts[i])]

\* the project configuration: default_tool and default_model
FrameArgs == [default_tool : {"", "kimi"}, default_model : {"", "opus-4.6"}]

FrameInit ==
    /\ tasks \in CliTaskSets
    /\ args \in FrameArgs
    /\ disk = WholeFile([i \in DOMAIN tasks |->
                            [task_no |-> tasks[i].task_no, status |-> tasks[i].status,
                             cli |-> tasks[i].raw_cli]])
    /\ scheduled_tasks = <<>>
    /\ tmp = NoFile
    /\ dry_run = FALSE
    /\ delay_range = <<0, 0>>
    /\ max_execution_seconds = 12
    /\ result = <<>>
    /\ Idle

varsFrameFixed == <<scheduled_tasks, tmp, ret, dry_run, delay_range,
                    max_execution_seconds, interrupted, ctrl_c_count, timed_out,
                    current_process, returncode, reaped, alive, exit_status,
                    spawned, now, return_code, elapsed, delay_left, hist, args,
                    failed, exit_code>>

\* load_task_set(project_dir, name, project_defaults)
FrameLoad ==
    /\ Running /\ pc = "start"
    /\ result' = disk.data
    /\ tasks' = FillDefaults(tasks, args)
    /\ pc' = "loaded"
    /\ UNCHANGED <<disk, idx, varsFrameFixed>>

\* `task.status = ...; save_task_set(self.task_set, project_dir)`
FrameUpdate ==
    /\ Running /\ pc = "loaded"
    /\ \E i \in DOMAIN tasks, s \in {"in-progress", "completed", "failed"} :
          /\ tasks' = SetStatus(tasks, i, s)
          /\ idx' = i
    /\ disk' = WholeFile(CliTaskSetToDict(tasks'))
    /\ pc' = "saved"
    /\ UNCHANGED <<result, varsFrameFixed>>

FrameNext == FrameLoad \/ FrameUpdate

FrameSpec == FrameInit /\ [][FrameNext]_vars

(***************************************************************************)
(* The timing of a result: _run_v3 assigns task.elapsed_seconds and        *)
(* task.last_run_at after the classification, save_task_set writes         *)
(* Task.to_dict().  raw_timing and timing are as in the reset command; the  *)
(* value "this_run" is the timing measured by the run under way.           *)
(***************************************************************************)
TimingTaskSets ==
    {ts \in [1..MaxTimingTasks ->
                [task_no : 1..MaxTimingTasks, batch : {1}, priority : {50},
                 status : {"not-started", "failed"},
                 raw_timing : {"absent", "null", "set"}, timing : {"unset"}]] :
        \A i \in 1..MaxTimingTasks : ts[i].task_no = i}

TimingInit ==
    /\ tasks \in TimingTaskSets
    /\ disk = WholeFile(TaskSetToDict(tasks))
    /\ tmp = NoFile
    /\ scheduled_tasks = [i \in 1..MaxTimingTasks |-> i]
    /\ dry_run = FALSE /\ delay_range = <<0, 0>> /\ max_execution_seconds = 12
    /\ result = <<>> /\ args = <<>>
    /\ Idle

varsTimingFixed == <<scheduled_tasks, dry_run, delay_range,
                     max_execution_seconds, interrupted, ctrl_c_count, timed_out,
                     current_process, returncode, reaped, alive, exit_status,
                     spawned, now, return_code, elapsed, delay_left, args>>

\* the task has been executed: status 'completed' or 'failed' (the timeout
\* branch included), `task.elapsed_seconds = round(elapsed, 1)`,
\* `task.last_run_at = ...`, then save_task_set
RecordResult ==
    /\ Running /\ pc = "start" /\ idx <= Len(scheduled_tasks)
    /\ \E success \in BOOLEAN :
          /\ tasks' = [tasks EXCEPT
                          ![cur].status = IF success THEN "completed" ELSE "failed",
                          ![cur].timing = "this_run"]
          /\ failed' = IF success THEN failed ELSE failed + 1
    /\ pc' = "save_open"
    /\ ret' = "recorded"
    /\ UNCHANGED <<disk, tmp, idx, result, exit_code, hist, varsTimingFixed>>

\* the loop goes on to the next task
RecordNext ==
    /\ Running /\ pc = "recorded"
    /\ idx' = idx + 1
    /\ pc' = "start"
    /\ UNCHANGED <<tasks, disk, tmp, ret, failed, result, exit_code, hist,
                   varsTimingFixed>>

\* after the run the file is loaded again
Reload ==
    /\ Running /\ pc = "start" /\ idx > Len(scheduled_tasks)
    /\ result' = LoadTaskSet(disk.data)
    /\ pc' = "reloaded"
    /\ UNCHANGED <<tasks, disk, tmp, ret, idx, failed, exit_code, hist,
                   varsTimingFixed>>

TimingNext ==
    \/ RecordResult \/ RecordNext \/ Reload
    \/ SaveOpen \/ SaveDump \/ SaveError \/ SaveReplace

TimingSpec == TimingInit /\ [][TimingNext]_vars

(***************************************************************************)
(* The process group of one child: Popen(..., preexec_fn=os.setsid) makes  *)
(* the shell (the Popen handle, pid 1) the leader of a group that also     *)
(* holds what the shell started, the grandchild.  args.cause says what     *)
(* makes the supervisor end the child, args.term_exits which processes     *)
(* exit on SIGTERM (the others ignore it).  hist.pending: the processes    *)
(* that got SIGTERM and are on their way out; hist.signalled: a kill       *)
(* helper has sent a signal.  now counts the 0.1 s polls of the wait.      *)
(***************************************************************************)
Shell == "shell"
Grandchild == "grandchild"

GroupArgs == [cause : {"timeout", "interrupt", "cleanup"},
              term_exits : SUBSET {Shell, Grandchild}]

GroupInit ==
    /\ args \in GroupArgs
    /\ tasks = <<>> /\ scheduled_tasks = <<>>
    /\ disk = WholeFile(<<>>) /\ tmp = NoFile
    /\ dry_run = FALSE /\ delay_range = <<0, 0>> /\ max_execution_seconds = 12
    /\ result = <<>>
    /\ pc = "start" /\ ret = "none" /\ idx = 1
    /\ interrupted = FALSE /\ ctrl_c_count = 0 /\ timed_out = FALSE
    /\ current_process = 0 /\ returncode = 0 /\ reaped = FALSE
    /\ alive = {} /\ exit_status = 0 /\ spawned = 0 /\ now = 0
    /\ return_code = 0 /\ elapsed = 0 /\ delay_left = 0 /\ failed = 0
    /\ exit_code = "running"
    /\ hist = [pending |-> {}, signalled |-> FALSE]

varsGroupFixed == <<tasks, scheduled_tasks, disk, tmp, ret, idx, dry_run,
                    delay_range, max_execution_seconds, ctrl_c_count,
                    returncode, exit_status, spawned, return_code, elapsed,
                    delay_left, failed, exit_code, result, args>>

\* subprocess.Popen(cmd, shell=True, preexec_fn=os.setsid, ...)
GroupSpawn ==
    /\ pc = "start"
    /\ current_process' = 1
    /\ alive' = {Shell, Grandchild}
    /\ pc' = "running"
    /\ UNCHANGED <<reaped, now, interrupted, timed_out, hist, varsGroupFixed>>

\* a process of the group exits: by itself while the command runs, or on
\* the SIGTERM it was sent
GroupExit ==
    /\ pc \in {"running", "helper_wait", "cleanup_wait"}
    /\ \E p \in alive :
          /\ pc = "running" \/ p \in hist.pending
          /\ alive' = alive \ {p}
          /\ hist' = [hist EXCEPT !.pending = @ \ {p}]
    /\ UNCHANGED <<pc, current_process, reaped, now, interrupted, timed_out,
                   varsGroupFixed>>

\* _kill_child / _timeout_kill up to the wait: `if not proc or proc.poll() is
\* not None: return`; os.killpg(pgid, signal.SIGTERM)
HelperStart ==
    /\ pc = "running" /\ args.cause \in {"timeout", "interrupt"}
    /\ interrupted' = (args.cause = "interrupt")
    /\ timed_out' = (args.cause = "timeout")
    /\ IF Shell \notin alive
       THEN /\ reaped' = TRUE /\ pc' = "helper_done"
            /\ UNCHANGED <<hist, now>>
       ELSE /\ hist' = [pending |-> alive \cap args.term_exits, signalled |-> TRUE]
            /\ now' = 0 /\ pc' = "helper_wait"
            /\ UNCHANGED reaped
    /\ UNCHANGED <<current_process, alive, varsGroupFixed>>

\* `for _ in range(50): if proc.poll() is not None: return; time.sleep(0.1)`,
\* then os.killpg(pgid, signal.SIGKILL)
HelperPoll ==
    /\ pc = "helper_wait"
    /\ IF Shell \notin alive
       THEN /\ reaped' = TRUE /\ pc' = "helper_done"
            /\ UNCHANGED <<alive, now, hist>>
       ELSE IF now < MaxPolls
       THEN /\ now' = now + 1
            /\ UNCHANGED <<alive, reaped, pc, hist>>
       ELSE /\ alive' = {}
            /\ hist' = [hist EXCEPT !.pending = {}]
            /\ pc' = "helper_done"
            /\ UNCHANGED <<reaped, now>>
    /\ UNCHANGED <<current_process, interrupted, timed_out, varsGroupFixed>>

\* _ensure_child_cleaned_up up to its wait: `if proc.poll() is None:` SIGTERM
\* to the group; a child that is dead is only forgotten
CleanupStart ==
    /\ \/ pc = "helper_done"
       \/ pc = "running" /\ args.cause = "cleanup"
    /\ IF Shell \notin alive
       THEN /\ current_process' = 0 /\ reaped' = FALSE
            /\ pc' = "returned"
            /\ UNCHANGED <<hist, now>>
       ELSE /\ hist' = [pending |-> hist.pending \cup (alive \cap args.term_exits),
                        signalled |-> TRUE]
            /\ now' = 0 /\ pc' = "cleanup_wait"
            /\ UNCHANGED <<current_process, reaped>>
    /\ UNCHANGED <<alive, interrupted, timed_out, varsGroupFixed>>

\* the wait of _ensure_child_cleaned_up, `if proc.poll() is None:` SIGKILL to
\* the group, proc.wait, self.current_process = None
CleanupPoll ==
    /\ pc = "cleanup_wait"
    /\ IF Shell \notin alive
       THEN /\ current_process' = 0 /\ pc' = "returned"
            /\ UNCHANGED <<alive, now, hist>>
       ELSE IF now < MaxPolls
       THEN /\ now' = now + 1
            /\ UNCHANGED <<alive, current_process, pc, hist>>
       ELSE /\ alive' = {}
            /\ hist' = [hist EXCEPT !.pending = {}]
            /\ current_process' = 0 /\ pc' = "returned"
            /\ UNCHANGED now
    /\ UNCHANGED <<reaped, interrupted, timed_out, varsGroupFixed>>

GroupNext ==
    \/ GroupSpawn \/ GroupExit \/ HelperStart \/ HelperPoll
    \/ CleanupStart \/ CleanupPoll

GroupSpec == GroupInit /\ [][GroupNext]_vars

(***************************************************************************)
(* Properties                                                              *)
(***************************************************************************)
DiskStatus(t) == disk.data[t].status
AfterPcs == {"after_interrupt", "after_timeout", "after_result"}

\* C1: after the child returned, the task's status is decided by the first
\* matching rule: interrupted flag -> interrupted; this call timed out ->
\* failed; exit code # 0 -> failed; elapsed < MIN_EXECUTION_SECONDS -> failed;
\* else completed.  The status is on disk when the loop goes on, so a task is
\* persisted completed only if none of the first four rules matched, and only
\* a timeout of the task's own call counts.
C1_Classification ==
    pc \in AfterPcs =>
        /\ hist.classified.at = "result"
        /\ tasks[cur].status = DiskStatus(cur)
        /\ DiskStatus(cur) =
              (IF hist.classified.int THEN "interrupted"
               ELSE IF hist.classified.to THEN "failed"
               ELSE IF hist.classified.rc # 0 THEN "failed"
               ELSE IF hist.classified.el < MIN_EXECUTION_SECONDS * 10 THEN "failed"
               ELSE "completed")

\* a task is on disk as completed right after the task before it failed
C1_Witness ==
    /\ pc = "after_result" /\ idx > 1
    /\ DiskStatus(cur) = "completed"
    /\ DiskStatus(scheduled_tasks[idx - 1]) = "failed"
    /\ failed = 1 /\ ~interrupted

\* C2: if the interrupted flag is set when execute_task returns for task T,
\* then from there on no task becomes in-progress and no child is started, the
\* tasks that were completed stay completed on disk, and when the loop has
\* left its body T is on disk as interrupted.
C2_InterruptStopsRun ==
    [][hist'.int_task # 0 =>
          /\ \A t \in 1..Len(tasks) :
                tasks'[t].status = "in-progress" => tasks[t].status = "in-progress"
          /\ hist.int_task # 0 => current_process' \in {0, current_process}
          /\ \A t \in hist'.done_at_int :
                disk'.data[t].status = "completed" /\ tasks'[t].status = "completed"
          /\ pc' \in {"after_interrupt", "end", "done"} =>
                disk'.data[hist'.int_task].status = "interrupted"]_vars

\* the run ended after an interrupt of the first scheduled task: the task is
\* interrupted on disk, another one is still completed, the last one not started
C2_Witness ==
    /\ pc = "done" /\ hist.int_task # 0
    /\ DiskStatus(hist.int_task) = "interrupted"
    /\ hist.done_at_int # {}
    /\ idx < Len(scheduled_tasks)
    /\ DiskStatus(scheduled_tasks[Len(scheduled_tasks)]) = "not-started"

\* C3: the target file changes only by the rename of the fully written temp
\* file: it always holds a complete content, a step that changes it is the
\* rename and installs the dump of the task set, and a write error leaves the
\* target as it was and ends the run with the exception.
C3_AtomicSave ==
    [][/\ disk.complete /\ disk'.complete
       /\ disk' # disk =>
             /\ pc = "save_rename" /\ tmp.complete
             /\ disk' = tmp
             /\ disk'.data = TaskSetToDict(tasks)
       /\ (pc \in {"save_open", "save_dump"} /\ pc' = "aborted") =>
             /\ disk' = disk
             /\ exit_code' = "exception"]_vars

\* the runner died between the write of the temp file and the rename: the temp
\* file holds the new content, the target the old one
C3_Witness ==
    /\ exit_code = "130" /\ pc = "save_rename"
    /\ tmp.complete /\ disk.complete
    /\ tmp.data # disk.data
    /\ disk.data # TaskSetToDict(tasks)

\* C4: a child is started only when its task is in-progress on disk, and when
\* the loop starts the next task, waits in the delay or has ended, the file
\* holds the status every task has in memory.
C4_SavedBeforeProceeding ==
    [][/\ (current_process' \notin {0, current_process}) =>
             disk.complete /\ disk.data[cur].status = "in-progress"
       /\ pc \in {"loop", "delay", "end", "done"} => disk.data = TaskSetToDict(tasks)
       /\ pc' \in {"loop", "delay", "end", "done"} => disk'.data = TaskSetToDict(tasks')
      ]_vars

\* the loop waits in the delay after a task it has just completed
C4_Witness ==
    /\ pc = "delay" /\ delay_left > 0
    /\ DiskStatus(cur) = "completed"
    /\ \E t \in 1..Len(tasks) : DiskStatus(t) = "not-started"

\* C5: when execute_task has returned or raised, no child is running and the
\* process handle is released.
C5_NoChildOutlivesCall ==
    pc \in {"classify", "aborted"} => alive = {} /\ current_process = 0

\* C6: a child that is still running after the deadline is dealt with: the
\* supervisor leaves execute_task (or the runner exits); it does not block.
C6_DeadlineEndsCall ==
    [](( /\ pc \in {"pty_loop", "pipe_loop"} /\ Running /\ ~interrupted
         /\ ChildRunning /\ now >= deadline)
       => <>(pc \notin ExecPcs \/ ~Running))

\* C7: the first signal sets the flag and kills the running child, gracefully
\* or after the grace period by force, and leaves the loop where it is; the
\* second signal kills the child by force at once and exits with 130; after
\* that exit no file is written and no loop step is taken.
C7_TwoTierCancellation ==
    [][/\ (ctrl_c_count = 0 /\ ctrl_c_count' = 1) =>
             /\ interrupted' /\ exit_code' = "running"
             /\ pc' = pc /\ tasks' = tasks /\ disk' = disk /\ tmp' = tmp
             /\ ChildRunning =>
                   /\ current_process \notin alive'
                   /\ exit_status' \in {TERM_RC, KILL_RC, 0, 1}
       /\ (ctrl_c_count = 1 /\ ctrl_c_count' = 2) =>
             /\ exit_code' = "130"
             /\ pc' = pc /\ tasks' = tasks /\ disk' = disk /\ tmp' = tmp
             /\ ChildRunning =>
                   /\ current_process \notin alive'
                   /\ exit_status' = KILL_RC /\ now' = now
       /\ ctrl_c_count' <= 2
       /\ exit_code = "130" =>
             /\ pc' = pc /\ tasks' = tasks /\ disk' = disk /\ tmp' = tmp
             /\ exit_code' = "130"]_vars

\* the second signal came while the child of an in-progress task was running
\* in the read loop: the child is dead, unreaped, the runner has exited
C7_Witness ==
    /\ ctrl_c_count = 2 /\ exit_code = "130"
    /\ pc = "pty_loop" /\ current_process # 0 /\ current_process \notin alive
    /\ exit_status = KILL_RC /\ ~reaped
    /\ DiskStatus(cur) = "in-progress"

\* C8: at most one child process is running at any time.
C8_OneChildAtATime == Cardinality(alive) <= 1

\* C9: a run that is not interrupted, not stopped by a configuration error and
\* not ended by an exception comes to its end with every scheduled task
\* completed or failed (or, in a dry run, passed over).
C9_RunCompletes ==
    <>( \/ interrupted
        \/ exit_code = "exception"
        \/ pc = "done" /\ exit_code = "1" /\ idx = 1 /\ failed = 0
        \/ /\ pc = "done"
           /\ idx > Len(scheduled_tasks)
           /\ dry_run \/ \A i \in 1..Len(scheduled_tasks) :
                            tasks[scheduled_tasks[i]].status \in {"completed", "failed"})

\* C10: schedule_tasks with no filter returns every task exactly once, sorted
\* by (batch, priority) ascending, tasks with equal keys in file order, and
\* leaves task_set.tasks in its order.
C10_ScheduleSorted ==
    pc = "scheduled" =>
        /\ Len(result) = Len(tasks)
        /\ \A t \in 1..Len(tasks) : \E i \in 1..Len(result) : result[i] = t
        /\ \A i, j \in 1..Len(result) :
              i < j =>
                 \/ tasks[result[i]].batch < tasks[result[j]].batch
                 \/ /\ tasks[result[i]].batch = tasks[result[j]].batch
                    /\ tasks[result[i]].priority < tasks[result[j]].priority
                 \/ /\ tasks[result[i]].batch = tasks[result[j]].batch
                    /\ tasks[result[i]].priority = tasks[result[j]].priority
                    /\ result[i] < result[j]
        /\ \A t \in 1..Len(tasks) : tasks[t].task_no = t

\* three tasks, the first two out of order and two with equal keys
C10_Witness ==
    /\ pc = "scheduled" /\ Len(tasks) = 3
    /\ result # <<1, 2, 3>>
    /\ \E i, j \in 1..3 : i # j /\ tasks[i].batch = tasks[j].batch
                                /\ tasks[i].priority = tasks[j].priority

\* the set of the elements of a sequence
Range(s) == {s[i] : i \in 1..Len(s)}

\* the task at index t satisfies every filter that was passed
PassesFilters(t) ==
    /\ args.batch # <<>> => tasks[t].batch = args.batch[1]
    /\ args.min_priority # <<>> => tasks[t].priority <= args.min_priority[1]
    /\ args.status_filter # "" => tasks[t].status = args.status_filter
    /\ args.retry_failed => tasks[t].status \in {"failed", "interrupted"}

FilteredList == schedule_tasks_args(tasks, [args EXCEPT !.start_from = <<>>])

\* C12: with start_from = X, if X is in the sorted, filtered list the result is
\* the suffix of that list starting at X; if X is not in it (no such task, or
\* the task was filtered out) the result is the filtered list unchanged.
C12_StartFrom ==
    (pc = "scheduled" /\ args.start_from # <<>>) =>
        LET base == FilteredList
            X == args.start_from[1]
        IN IF \E k \in 1..Len(base) : tasks[base[k]].task_no = X
           THEN /\ Len(result) >= 1
                /\ tasks[result[1]].task_no = X
                /\ result = SubSeq(base, Len(base) - Len(result) + 1, Len(base))
           ELSE result = base

\* the anchor is a task that a filter removed, and the filtered list is
\* returned whole
C12_Witness ==
    /\ pc = "scheduled" /\ args.start_from # <<>>
    /\ \E t \in 1..Len(tasks) : tasks[t].task_no = args.start_from[1]
    /\ \A k \in 1..Len(FilteredList) :
          tasks[FilteredList[k]].task_no # args.start_from[1]
    /\ Len(FilteredList) >= 2
    /\ result = FilteredList

\* the task reached from task_no no by following depends_on k times, or
\* EmptyStr when the chain ends before (no dependency, or a missing task)
RECURSIVE Follow(_, _)
Follow(no, k) ==
    IF k = 0 THEN no
    ELSE LET prev == Follow(no, k - 1)
         IN IF prev \in TaskNos(tasks) /\ Truthy(tasks[TaskMap(tasks, prev)].depends_on)
                /\ tasks[TaskMap(tasks, prev)].depends_on[1] \in TaskNos(tasks)
            THEN tasks[TaskMap(tasks, prev)].depends_on[1]
            ELSE EmptyStr

\* following depends_on from no comes back to a task already on the path
Revisits(no) ==
    \E a, b \in 0..Len(tasks) : a < b /\ Follow(no, a) # EmptyStr
                                      /\ Follow(no, a) = Follow(no, b)

\* no is a task of a cycle
OnCycle(no) == \E k \in 1..Len(tasks) : Follow(no, k) = no

CycleErrorTasks == {result[i].task : i \in {j \in 1..Len(result) : result[j].kind = "cycle"}}
MissingErrorAt(t) == {j \in 1..Len(result) : result[j].kind = "missing" /\ result[j].task = t}

\* C13: validate_dependencies reports a cycle error iff following depends_on
\* from some task comes back to a task already on the path; every task of a
\* cycle is named by a cycle error and every cycle error names a task whose
\* chain runs into a cycle; with acyclic chains that all resolve there is no
\* error at all.
C13_CycleDetection ==
    pc = "validated" =>
        /\ (CycleErrorTasks # {}) <=> (\E no \in TaskNos(tasks) : Revisits(no))
        /\ \A no \in TaskNos(tasks) : OnCycle(no) => no \in CycleErrorTasks
        /\ \A no \in CycleErrorTasks : no \in TaskNos(tasks) /\ Revisits(no)
        /\ ((\A no \in TaskNos(tasks) : ~Revisits(no))
            /\ (\A i \in 1..Len(tasks) :
                   Truthy(tasks[i].depends_on) => tasks[i].depends_on[1] \in TaskNos(tasks)))
           => result = <<>>

\* a two-task mutual dependency is reported, with a third task that depends
\* on one of the two and is on no cycle itself
C13_Witness ==
    /\ pc = "validated" /\ Len(tasks) = 3
    /\ \E a, b, c \in TaskNos(tasks) :
          /\ a # b /\ Follow(a, 1) = b /\ Follow(b, 1) = a
          /\ c \notin {a, b} /\ ~OnCycle(c) /\ Follow(c, 1) = a
          /\ {a, b} \subseteq CycleErrorTasks

WavesOf(t) == {w \in 1..Len(result) : \E k \in 1..Len(result[w]) : result[w][k] = t}
PlanLength == IF result = <<>> THEN 0
              ELSE LET RECURSIVE Sum(_)
                       Sum(w) == IF w = 0 THEN 0 ELSE Len(result[w]) + Sum(w - 1)
                   IN Sum(Len(result))

\* C15: for every task set with unique task_nos, cycles and dangling
\* references included, the waves of get_execution_plan taken together hold
\* every task exactly once, and no task is in an earlier wave than the task
\* it depends on.
C15_PlanCoversAll ==
    pc = "planned" =>
        /\ \A t \in 1..Len(tasks) : Cardinality(WavesOf(t)) = 1
        /\ PlanLength = Len(tasks)
        /\ \A t, d \in 1..Len(tasks) :
              tasks[t].depends_on = <<tasks[d].task_no>> =>
                  \A wt \in WavesOf(t), wd \in WavesOf(d) : wt >= wd

\* a plan whose last wave is the fallback wave of a two-task cycle, after a
\* wave with a ready task
C15_Witness ==
    /\ pc = "planned" /\ Len(tasks) = 3 /\ Len(result) = 2
    /\ Len(result[2]) = 2
    /\ \A k \in 1..2 : tasks[result[2][k]].depends_on # <<>>
    /\ tasks[result[2][1]].depends_on = <<tasks[result[2][2]].task_no>>
    /\ tasks[result[2][2]].depends_on = <<tasks[result[2][1]].task_no>>

\* C16: for a task set that validate_dependencies accepts with no errors,
\* every task without a dependency is in the first wave, every dependent task
\* is in the wave right after the wave of its dependency, and no wave holds a
\* task whose dependency is not in an earlier wave (the fallback wave).
C16_WavesOfValidSet ==
    (pc = "planned" /\ validate_dependencies(tasks) = <<>>) =>
        /\ \A t \in 1..Len(tasks) :
              tasks[t].depends_on \in {<<>>, <<EmptyStr>>} => WavesOf(t) = {1}
        /\ \A t, d \in 1..Len(tasks) :
              tasks[t].depends_on = <<tasks[d].task_no>> =>
                  \A wt \in WavesOf(t), wd \in WavesOf(d) : wt = wd + 1

\* C18: a reset never fails on a target that is already 'not-started': when
\* the command has targets it returns, every target is counted either as
\* reset or as already clean, and the same reset run a second time resets no
\* task and leaves the file as the first run wrote it.
C18_ResetIdempotent ==
    (pc \in {"done", "raised"} /\ result.rc # "1") =>
        /\ pc = "done"
        /\ result.reset_count + result.already_clean = result.targets
        /\ hist.runs = 2 => (result.reset_count = 0 /\ disk = hist.first)

\* exactly one of the four filters is given
OnlyStatus == args.status # "" /\ ~args.reset_all /\ args.start_from = <<>> /\ args.batch = <<>>
OnlyFrom == /\ args.status = "" /\ ~args.reset_all /\ args.batch = <<>>
            /\ args.start_from # <<>> /\ args.start_from[1] \in TaskNos(tasks)
OnlyBatch == args.batch # <<>> /\ args.status = "" /\ ~args.reset_all /\ args.start_from = <<>>
OnlyAll == args.reset_all /\ args.status = "" /\ args.start_from = <<>> /\ args.batch = <<>>

\* the position of the task at index t in (batch, priority) order
SortedPos(t) == CHOOSE k \in 1..Len(tasks) : schedule_tasks(tasks)[k] = t

\* the task at index t, as it was in the file before the run, matches the filter
Matches(t) ==
    \/ OnlyStatus /\ hist.before.data[t].status = args.status
    \/ OnlyFrom /\ SortedPos(t) >= SortedPos(TaskMap(tasks, args.start_from[1]))
    \/ OnlyBatch /\ hist.before.data[t].batch = args.batch[1]
    \/ OnlyAll

\* C19: with one filter on its own (a status, a starting task_no, a batch, or
\* all) the command returns with the file holding every matching task as
\* 'not-started' with elapsed_seconds and last_run_at cleared and every other
\* task as it was.
C19_ResetByFilter ==
    (hist.runs = 1 /\ pc \in {"done", "raised"}
        /\ (OnlyStatus \/ OnlyFrom \/ OnlyBatch \/ OnlyAll)) =>
        /\ pc = "done"
        /\ disk.complete
        /\ \A t \in 1..Len(tasks) :
              IF Matches(t)
              THEN /\ disk.data[t].status = "not-started"
                   /\ disk.data[t].elapsed_seconds # "set"
              ELSE disk.data[t] = hist.before.data[t]

\* C17: for an execution that was neither interrupted nor timed out, exit
\* code 0 with an elapsed time below MIN_EXECUTION_SECONDS (9.9 s included) is
\* persisted as failed, exit code 0 with an elapsed time of exactly the
\* threshold or more as completed, and a non-zero exit code as failed whatever
\* the elapsed time.
C17_MinimumBoundary ==
    (pc = "after_result" /\ ~hist.classified.int /\ ~hist.classified.to) =>
        /\ (hist.classified.rc = 0 /\ hist.classified.el <= MIN_EXECUTION_SECONDS * 10 - 1)
              => DiskStatus(cur) = "failed"
        /\ (hist.classified.rc = 0 /\ hist.classified.el >= MIN_EXECUTION_SECONDS * 10)
              => DiskStatus(cur) = "completed"
        /\ hist.classified.rc # 0 => DiskStatus(cur) = "failed"

\* a task that exited with code 0 after exactly the threshold is completed,
\* after a task that failed
C17_Witness ==
    /\ pc = "after_result" /\ idx > 1 /\ ~interrupted
    /\ hist.classified.rc = 0 /\ hist.classified.el = MIN_EXECUTION_SECONDS * 10
    /\ DiskStatus(cur) = "completed"
    /\ DiskStatus(scheduled_tasks[idx - 1]) = "failed"

\* the line matches a noise-start pattern / holds the end marker </html>
HasStartMarker(line) == line.kind \in {"start", "startend"}
HasEndMarker(line) == line.kind \in {"end", "startend"}

\* the first noise-start line of the input and the first end marker after it
\* (0 when there is none)
BlockFirst ==
    IF \E i \in 1..Len(args) : HasStartMarker(args[i])
    THEN CHOOSE i \in 1..Len(args) :
             HasStartMarker(args[i]) /\ \A j \in 1..(i - 1) : ~HasStartMarker(args[j])
    ELSE 0
BlockLast ==
    IF BlockFirst # 0 /\ \E i \in (BlockFirst + 1)..Len(args) : HasEndMarker(args[i])
    THEN CHOOSE i \in (BlockFirst + 1)..Len(args) :
             HasEndMarker(args[i]) /\ \A j \in (BlockFirst + 1)..(i - 1) : ~HasEndMarker(args[j])
    ELSE 0

\* the input is lines, one block from a start marker to its end marker, lines;
\* no further block starts after it
OneBlock ==
    /\ pc = "sanitized" /\ BlockFirst # 0 /\ BlockLast # 0
    /\ \A i \in (BlockLast + 1)..Len(args) : ~HasStartMarker(args[i])

\* the lines before and after the block, in order
AroundBlock == SubSeq(args, 1, BlockFirst - 1) \o SubSeq(args, BlockLast + 1, Len(args))

NonBlank(lines) == SelectSeq(lines, LAMBDA l : l.kind # "blank")

\* C20 as stated: the output is, blank lines aside, the lines before and after
\* the block verbatim and in order.
C20_BlockElidedVerbatim ==
    OneBlock => NonBlank(result) = NonBlank(AroundBlock)

\* C20, amended: the output holds no line of the block and is, blank lines
\* aside, the lines before and after the block in order, without the
\* standalone noise lines and with the escape sequences and carriage returns
\* taken out of every line.
C20_BlockElided ==
    OneBlock =>
        /\ NonBlank(result) =
              NonBlank(SelectSeq([i \in 1..Len(AroundBlock) |->
                                     [AroundBlock[i] EXCEPT !.esc = FALSE]],
                                 LAMBDA l : l.kind # "noise"))
        /\ \A i \in 1..Len(result) : ~HasStartMarker(result[i])

\* a text line, a block of three lines whose end marker is on a line that
\* also matches the start pattern, and a text line: the two text lines are
\* the output
C20_Witness ==
    /\ OneBlock /\ Len(args) = 5 /\ BlockFirst = 2 /\ BlockLast = 4
    /\ args[4].kind = "startend"
    /\ args[1].kind = "text" /\ args[5].kind = "text" /\ args[1].id # args[5].id
    /\ result = <<args[1], args[5]>>

\* the text has no escape sequence, no carriage return and no noise marker
CleanInput ==
    /\ pc = "sanitized"
    /\ \A i \in 1..Len(args) : args[i].kind \in {"text", "blank"} /\ ~args[i].esc

\* the positions of args that are no blank line right after a blank line
KeptPositions ==
    {i \in 1..Len(args) : ~(i > 1 /\ args[i].kind = "blank" /\ args[i - 1].kind = "blank")}

\* C21: on a text with no ANSI sequences, no carriage returns and no noise
\* markers the output is the input without the blank lines that follow a
\* blank line, in order; it never has two consecutive blank lines, and an
\* input without consecutive blank lines comes back unchanged.
C21_CleanRoundTrip ==
    CleanInput =>
        /\ Len(result) = Cardinality(KeptPositions)
        /\ \A k \in 1..Len(result) :
              \E i \in KeptPositions :
                 /\ Cardinality({j \in KeptPositions : j <= i}) = k
                 /\ result[k] = args[i]
        /\ \A k \in 1..(Len(result) - 1) :
              ~(result[k].kind = "blank" /\ result[k + 1].kind = "blank")
        /\ KeptPositions = 1..Len(args) => result = args

\* a clean text with a single blank line between two text lines and a run of
\* two blank lines at its end: only the last line is dropped
C21_Witness ==
    /\ CleanInput /\ Len(args) = 5
    /\ args[1].kind = "text" /\ args[2].kind = "blank" /\ args[3].kind = "text"
    /\ args[4].kind = "blank" /\ args[5].kind = "blank"
    /\ result = SubSeq(args, 1, 4)

\* C22: execute_task starts the task's command at most once per call: the
\* pipe mode is entered only when no child was started in PTY mode.
C22_CommandStartedOnce ==
    /\ spawned <= 1
    /\ pc \in {"pipe_loop", "pipe_wait"} => ~hist.fallback_after_spawn

\* C23: the inter-task delay is entered only from the result of a task that
\* is 'completed' on disk, with the run not interrupted and not a dry run, and
\* with a scheduled task after it; never after a failed, timed-out or
\* interrupted task or after the last one.  The delay chosen is a whole
\* number of seconds in [min, max], and while the loop waits it is counted
\* down one second at a time.
C23_DelayOnlyAfterSuccess ==
    [][/\ (pc # "delay" /\ pc' = "delay") =>
             /\ pc = "after_result"
             /\ DiskStatus(cur) = "completed"
             /\ hist.classified.rc = 0 /\ ~hist.classified.to /\ ~hist.classified.int
             /\ ~interrupted /\ ~dry_run
             /\ idx < Len(scheduled_tasks)
             /\ delay_left' \in delay_range[1]..delay_range[2]
       /\ (pc = "delay" /\ pc' = "delay") => delay_left' \in {delay_left, delay_left - 1}
       /\ pc \in {"after_interrupt", "after_timeout", "tool_failed"} => pc' # "delay"
      ]_vars

\* the loop waits two seconds after the first task, which is completed, with
\* another task to go
C23_Witness ==
    /\ pc = "delay" /\ delay_left = 2 /\ idx = 1
    /\ DiskStatus(cur) = "completed"
    /\ tasks[scheduled_tasks[2]].status = "not-started"

\* C24: once the interrupted flag is set while the loop waits in the
\* inter-task delay, the countdown takes no further one-second tick, and from
\* there the run only leaves the loop: no task is marked, no file is written
\* and no child is spawned.
C24_DelayInterruptible ==
    [][(interrupted /\ pc \in {"delay", "loop", "end"}) =>
          /\ pc' = "delay" => pc = "delay" /\ delay_left' = delay_left
          /\ pc' \in {"delay", "loop", "end", "done"}
          /\ pc = "loop" => pc' # "delay"
          /\ pc = "end"  => pc' \in {"end", "done"}
          /\ spawned' = spawned /\ tasks' = tasks /\ disk' = disk
      ]_vars

\* the flag is set with two seconds of delay left and a task still to run
C24_Witness ==
    /\ pc = "delay" /\ interrupted /\ delay_left = 2 /\ idx = 1
    /\ tasks[scheduled_tasks[1]].status = "completed"
    /\ tasks[scheduled_tasks[2]].status = "not-started"

\* C25: when the loop stands at a scheduled task whose status is
\* 'completed', no step writes a prompt file, spawns a child, changes a task
\* status or touches the task-set file; the step that moves past the task
\* adds one to `skipped` and nothing to `succeeded` or `failed`.
C25_CompletedSkipped ==
    [][(pc = "loop" /\ idx <= Len(scheduled_tasks)
                    /\ tasks[cur].status = "completed") =>
          /\ tasks' = tasks /\ disk' = disk /\ tmp' = tmp
          /\ alive' \subseteq alive /\ spawned' = spawned
          /\ current_process' = current_process
          /\ hist'.prompts = hist.prompts
          /\ failed' = failed /\ hist'.succeeded = hist.succeeded
          /\ pc' \in {"loop", "end"}
          /\ idx' # idx => /\ idx' = idx + 1
                           /\ hist'.skipped = hist.skipped + 1
      ]_vars

\* the first scheduled task was completed before the run and has been passed
\* over; the run goes on with the second one
C25_Witness ==
    /\ pc = "loop" /\ idx = 2 /\ ~dry_run /\ ~interrupted
    /\ tasks[scheduled_tasks[1]].status = "completed"
    /\ hist.skipped = 1 /\ hist.prompts = {}
    /\ hist.succeeded = 0 /\ failed = 0
    /\ tasks[scheduled_tasks[2]].status = "not-started"

\* what a dry run does to every task the loop has passed: a prompt file for
\* each task that was not completed, and nothing else: no status changed, the
\* task-set file and its temp file untouched, no child, no delay, no counter
\* of attempts moved
DryRunEffect ==
    dry_run =>
       /\ hist.prompts = {scheduled_tasks[i] : i \in {j \in 1..(idx - 1) :
                              tasks[scheduled_tasks[j]].status # "completed"}}
       /\ \A t \in 1..NumTasks : tasks[t].status \in {"not-started", "completed"}
       /\ disk = WholeFile(TaskSetToDict(tasks)) /\ tmp = NoFile
       /\ alive = {} /\ current_process = 0 /\ spawned = 0
       /\ delay_left = 0 /\ failed = 0 /\ hist.succeeded = 0
       /\ pc \in {"start", "loop", "end", "done"}

\* C26 as stated: a dry run writes the prompt files and nothing else, and
\* returns 0 whatever happens.
C26_DryRunAlwaysZero ==
    /\ DryRunEffect
    /\ dry_run /\ pc = "done" => exit_code = "0"

\* C26: a dry run writes the prompt files and nothing else; it returns 0 when
\* it was not interrupted, and non-zero when a signal set the interrupted flag.
C26_DryRun ==
    /\ DryRunEffect
    /\ dry_run /\ pc = "done" /\ ~interrupted => exit_code = "0"
    /\ dry_run /\ pc = "done" /\ interrupted => exit_code \in {"1", "130"}

\* a dry run over two tasks to do and one completed has ended with 0
C26_Witness ==
    /\ dry_run /\ pc = "done" /\ exit_code = "0"
    /\ Cardinality(hist.prompts) = 2 /\ hist.skipped = 1
    /\ delay_range = <<1, 2>>

\* the tool and the model the stated precedence gives to task i: command
\* line, then the task's own "cli" object, then the project default
PrecedenceTool(i) ==
    IF args.tool # "" THEN args.tool
    ELSE IF tasks[i].raw_cli.tool # "" THEN tasks[i].raw_cli.tool
    ELSE args.default_tool
PrecedenceModel(i) ==
    IF args.model # "" THEN args.model
    ELSE IF tasks[i].raw_cli.model # "" THEN tasks[i].raw_cli.model
    ELSE args.default_model

\* C27: every command that is built uses the tool given by the precedence
\* command line > per-task override > project default, and, when that tool
\* takes a model, the model given by the same precedence applied on its own.
\* (Only names that exist are looked at.)
C27_Precedence ==
    \A i \in DOMAIN tasks :
        (tasks[i].cmd.tool # "" /\ PrecedenceTool(i) \in {"kimi", "agent"}) =>
            /\ tasks[i].cmd.tool = PrecedenceTool(i)
            /\ (PrecedenceTool(i) = "agent" /\ PrecedenceModel(i) # "")
                   => tasks[i].cmd.model = PrecedenceModel(i)

\* a configuration error of the run: unknown tool, unknown model, a template
\* that does not exist, a tool binary that is not in the search path, in the
\* run-level settings or in a per-task override that is in effect
RunLevelError ==
    LET tool == IF args.tool # "" THEN args.tool ELSE args.default_tool
        model == IF args.model # "" THEN args.model ELSE args.default_model
    IN \/ tool \notin {"kimi", "agent"}
       \/ tool = "agent" /\ model = "nosuchmodel"
       \/ args.template = "missing.md"
       \/ tool \notin args.path
PerTaskError(i) ==
    \/ PrecedenceTool(i) \notin {"kimi", "agent"}
    \/ PrecedenceTool(i) = "agent" /\ PrecedenceModel(i) = "nosuchmodel"
    \/ PrecedenceTool(i) \notin args.path

\* C28: with a configuration error in the run-level settings or in a per-task
\* override, no task becomes 'in-progress', no command is built, and the run
\* ends with a non-zero result.
C28_ConfigErrorStopsRun ==
    (RunLevelError \/ \E i \in DOMAIN tasks : PerTaskError(i)) =>
        /\ \A i \in DOMAIN tasks :
              tasks[i].cmd = NoCmd /\ tasks[i].status \in {"not-started", "failed"}
        /\ pc = "done" => exit_code = "1"

\* no task of the run ended 'failed' (no task is 'failed' before the run)
NoTaskFailed == \A t \in 1..NumTasks : tasks[t].status # "failed"

\* C29 as stated: whenever run() has returned, the result is 0 exactly when
\* no task was classified 'failed' and the run was not interrupted.
C29_ZeroIffCleanRun ==
    pc = "done" => (exit_code = "0" <=> (NoTaskFailed /\ ~interrupted))

\* C29: when run() has returned after its task loop, the result is 0 exactly
\* when no task was classified 'failed' and the run was not interrupted, and
\* 1 otherwise; a run that returned before the loop, because the run-level
\* tool is not in the search path, gives 1 with no task failed.
C29_ZeroIffCleanLoop ==
    pc = "done" =>
        /\ exit_code \in {"0", "1"}
        /\ (idx > Len(scheduled_tasks) \/ interrupted)
               => (exit_code = "0" <=> (NoTaskFailed /\ ~interrupted))
        /\ (idx <= Len(scheduled_tasks) /\ ~interrupted)
               => /\ exit_code = "1" /\ ~dry_run /\ NoTaskFailed
                  /\ idx = 1 /\ hist.prompts = {} /\ hist.skipped = 0

\* a run has returned 0 after one task was skipped and two were completed
C29_Witness ==
    /\ pc = "done" /\ exit_code = "0" /\ ~dry_run
    /\ hist.succeeded = 2 /\ hist.skipped = 1 /\ failed = 0

\* C30: once the save that follows a classification has replaced the file,
\* the file holds the task's new status and the timing of this run (not the
\* timing an earlier run left there), and loading the file gives them back.
C30_TimingPersisted ==
    /\ pc = "recorded" =>
          /\ disk.data[cur].status = tasks[cur].status
          /\ disk.data[cur].elapsed_seconds = "this_run"
    /\ pc = "reloaded" =>
          \A i \in DOMAIN result :
              /\ result[i].status = tasks[i].status
              /\ result[i].raw_timing = "this_run"

\* C31: when execute_task returns after the supervisor has sent a signal to
\* the child's process group (timeout, first interrupt or final cleanup), no
\* process of the group is left running.
C31_GroupDead ==
    (pc = "returned" /\ hist.signalled) => alive = {}

\* the task_nos placed by the waves before wave w
PlacedBefore(w) ==
    UNION {{tasks[result[v][k]].task_no : k \in 1..Len(result[v])} : v \in 1..(w - 1)}

\* wave w holds a task that was not ready when the wave was made
HoldsUnready(w) ==
    \E k \in 1..Len(result[w]) :
        /\ tasks[result[w][k]].depends_on # <<>>
        /\ tasks[result[w][k]].depends_on[1] \notin PlacedBefore(w)

\* C32: get_execution_plan returns for every task set after at most
\* len(tasks) + 1 iterations, one wave per iteration: every wave places at
\* least one task that no earlier wave placed, and a wave made without a ready
\* task is the last one and holds all the tasks that were left.
C32_PlanTerminates ==
    pc = "planned" =>
        /\ Len(result) <= Len(tasks) + 1
        /\ \A w \in 1..Len(result) :
              /\ result[w] # <<>>
              /\ \A k \in 1..Len(result[w]) :
                    tasks[result[w][k]].task_no \notin PlacedBefore(w)
              /\ HoldsUnready(w) => w = Len(result)
        /\ PlacedBefore(Len(result) + 1) = {tasks[t].task_no : t \in 1..Len(tasks)}

\* a plan of three iterations whose last wave was made without a ready task:
\* a chain of two tasks, then a task that depends on itself
C32_Witness ==
    /\ pc = "planned" /\ Len(tasks) = 3 /\ Len(result) = 3
    /\ HoldsUnready(3) /\ ~HoldsUnready(2)
    /\ tasks[result[3][1]].depends_on = <<tasks[result[3][1]].task_no>>

\* C33: every wave of the plan, the final wave of the tasks with
\* unsatisfiable dependencies included, is in ascending (batch, priority)
\* order.
C33_WavesSorted ==
    pc = "planned" =>
        \A w \in 1..Len(result) : \A j, k \in 1..Len(result[w]) :
            j < k =>
                \/ tasks[result[w][j]].batch < tasks[result[w][k]].batch
                \/ /\ tasks[result[w][j]].batch = tasks[result[w][k]].batch
                   /\ tasks[result[w][j]].priority <= tasks[result[w][k]].priority

\* C34: every task named by a cycle error of validate_dependencies lies on
\* a dependency cycle: following depends_on from it leads back to it.
C34_OnlyCycleMembersNamed ==
    pc = "validated" => \A no \in CycleErrorTasks : OnCycle(no)

\* a pattern of _NOISE_LINE_PATTERNS matches the line
NoisePatternLine(line) == line.kind \in {"noise", "peer"}

\* the lines without the one at position p
WithoutLine(lines, p) ==
    [k \in 1..(Len(lines) - 1) |-> IF k < p THEN lines[k] ELSE lines[k + 1]]

\* C35: a line that matches a single-line noise pattern, with only text
\* lines around it (no block marker before or after it), is the one line
\* the sanitized output leaves out: every other line is kept, in order
C35_NoiseLineOnlyRemoved ==
    pc = "sanitized" =>
        \A p \in 1..Len(args) :
            (/\ NoisePatternLine(args[p])
             /\ \A q \in 1..Len(args) : q # p => args[q].kind = "text")
            => result = WithoutLine(args, p)

\* validators.VALID_TASK_STATUSES
VALID_TASK_STATUSES == {"not-started", "in-progress", "completed", "failed", "skipped"}

\* validate_task_set_file(data): the tasks that get an "invalid status" error
StatusErrors(data) ==
    {i \in 1..Len(data) : data[i].status \notin VALID_TASK_STATUSES}

\* C37: the task-set file on disk, whenever it is a whole file, holds only
\* statuses that validate_task_set_file accepts
C37_PersistedStatusesValid ==
    (disk.exists /\ disk.complete) => StatusErrors(disk.data) = {}

\* C36: once the interrupted flag is set, no step moves a task to
\* in-progress and no step starts a child process
C36_NoStartAfterInterrupt ==
    [][interrupted =>
          /\ \A t \in 1..Len(tasks) :
                tasks'[t].status = "in-progress" => tasks[t].status = "in-progress"
          /\ current_process' \in {0, current_process}
          /\ alive' \subseteq alive]_vars

\* C40: a task whose execute_task call returned before any signal, with exit
\* code 0 after at least MIN_EXECUTION_SECONDS and no timeout, is on disk as
\* completed once its result is saved, whenever the first signal comes
C40_ExitedBeforeSignalCompleted ==
    (/\ pc \in {"after_interrupt", "after_result"}
     /\ hist.classified.at = "result"
     /\ hist.int_task = 0
     /\ ~hist.classified.to
     /\ hist.classified.rc = 0
     /\ hist.classified.el >= MIN_EXECUTION_SECONDS * 10)
    => disk.data[cur].status = "completed"

\* save_run_summary and the run record of _execute, written after
\* executor.run() returned: results is get_results(), whose "failed" is the
\* loop's counter
RunStatus(results_failed) == IF results_failed = 0 THEN "completed" ELSE "partial"

\* C38: when run() has returned, the status recorded in summary.json and in
\* the run record is "completed" only if run() returned 0
C38_CompletedOnlyOnSuccess ==
    (pc = "done" /\ exit_code \in {"0", "1"})
    => (RunStatus(failed) = "completed" => exit_code = "0")

\* C39: after load_task_set, a status update and save_task_set, every task
\* of the file has the "cli" object it had when the file was loaded, and
\* every task but the updated one is as it was altogether
C39_SaveKeepsOtherFields ==
    pc = "saved" =>
        \A i \in DOMAIN result :
            /\ disk.data[i].cli = result[i].cli
            /\ i # idx => disk.data[i] = result[i]

====
